---- MODULE Spec2Model ----
(***************************************************************************)
(* Model of the exam mixing engine of src/services/docxService.ts:         *)
(* balanced key generation, option shuffling, answer resolution, layout    *)
(* reformatting, key-tag removal and the variant generation loop.          *)
(*                                                                         *)
(* JavaScript arrays are 0-based, TLA+ sequences 1-based: an index i of    *)
(* the source is i + 1 here.  Math.random() is a nondeterministic choice:  *)
(* an operator that uses it yields the SET of its possible results.        *)
(***************************************************************************)
EXTENDS Integers, Sequences, FiniteSets, TLC

VARIABLES
    kpc,        \* generateBalancedKeys harness: "idle" | "done"
    kn,         \* totalQuestions handed to generateBalancedKeys
    keys,       \* the list it returned
    qpc,        \* one question: "idle" | "loaded" | "resolvedSource" | "shuffled"
                \*               | "resolved" | "appended"
    qBlock,     \* the QuestionBlock processDocxFile built
    qArgs,      \* arguments of the last call made on it
    qOut,       \* node list the last call returned (appended to the body)
    qAns,       \* answer the last call resolved
    qIssues,    \* issues getValidationIssues reported for the question
    gpc,        \* generateVariants: "idle" | "setup" | "top" | "sections"
                \*                   | "finish" | "sealing" | "done"
    docData,    \* the ProcessedDoc: its questions, its preamble
    gArgs,      \* count, startCode, headerConfig.enabled, mixOptions
    zip,        \* docData.zip, the package shared by all variants
    gi,         \* loop variable i
    cur,        \* the variant under construction
    allVariantAnswers,
    masterZip,  \* the sealed variant packages, in order
    matrix,     \* the answer table
    cpc,        \* cleanKeyTagFromParagraph harness: "idle" | "ready" | "cleaned"
    cIn,        \* texts of the w:t fragments of the paragraph, in order
    cOut,       \* their texts after the call
    spc,        \* processDocxFile, from the body on: "idle" | "parsed" | "loop" | "done"
    sBody,      \* body.childNodes as parsed
    childNodes, \* the list the loop walks (after the w:sectPr extraction)
    si,         \* position of the loop in childNodes
    seg,        \* currentSegment, accumulatedNodes, currentSectionLabel,
                \* segments and questions of processDocxFile
    finalSectPr, \* the extracted w:sectPr (its node), <<>> when there is none
    app,        \* state of the App component: isProcessing, docData, issues,
                \* aiAnalysis, step, errorMsg, startCode, variantCount
    pending,    \* the promises App awaits, oldest first
    apiKey,     \* process.env.API_KEY is set
    nextCode,   \* localStorage item mathmixer_next_code, 0 when absent
    tpc,        \* appendQuestions on one question, at the level of its runs:
                \* "idle" | "ready" | "resolved" | "appended"
    tIn,        \* the paragraphs of the question: their runs (text, rPr)
    tAns,       \* the answer recorded for it
    tOut,       \* the paragraphs appended to the variant body
    bpc,        \* generateVariants called again and again on one ProcessedDoc:
                \* "idle" | "ready"
    bSource,    \* the package as processDocxFile loaded it
    bZip,       \* docData.zip as the calls so far left it
    bArgs,      \* startCode, count, headerConfig.enabled of each call
    bRids,      \* what setupFooterFiles returned, call after call
    bOut        \* the variant packages of the last call

keyVars == <<kpc, kn, keys>>
questionVars == <<qpc, qBlock, qArgs, qOut, qAns, qIssues>>
genVars == <<gpc, docData, gArgs, zip, gi, cur, allVariantAnswers, masterZip, matrix>>
cleanVars == <<cpc, cIn, cOut>>
segmentVars == <<spc, sBody, childNodes, si, seg, finalSectPr>>
appVars == <<app, pending, apiKey, nextCode>>
stripVars == <<tpc, tIn, tAns, tOut>>
batchVars == <<bpc, bSource, bZip, bArgs, bRids, bOut>>
vars == <<keyVars, questionVars, genVars, cleanVars, segmentVars, appVars, stripVars, batchVars>>

----------------------------------------------------------------------------
(* Bounds of the model *)

MaxKeys == 6
MaxOptions == 4     \* option paragraphs of a question
MaxExtra == 1       \* paragraphs between the stem and the options
MaxQuestions == 2   \* questions of a document
MaxCount == 2       \* variants of a batch
MaxBody == 4        \* children of w:body
MaxPending == 2     \* promises App awaits at one time
MaxBatches == 2     \* batches generated in one session

----------------------------------------------------------------------------
(* Generic helpers *)

Range(s) == { s[i] : i \in DOMAIN s }

Count(s, x) == Cardinality({ i \in DOMAIN s : s[i] = x })

Min2(a, b) == IF a <= b THEN a ELSE b
Max2(a, b) == IF a >= b THEN a ELSE b

RECURSIVE Repeat(_, _)
Repeat(x, c) == IF c <= 0 THEN <<>> ELSE <<x>> \o Repeat(x, c - 1)

----------------------------------------------------------------------------
(* shuffleArray: Fisher-Yates.  for (i = length-1; i > 0; i--) swap i with *)
(* a random j in [0, i].  The result is the set of all reachable arrays.   *)

Swap(arr, i, j) == [arr EXCEPT ![i] = arr[j], ![j] = arr[i]]

RECURSIVE FisherYates(_, _)
FisherYates(arr, i) ==
    IF i <= 1 THEN {arr}
    ELSE UNION { FisherYates(Swap(arr, i, j), i - 1) : j \in 1..i }

shuffleArray(array) == FisherYates(array, Len(array))

----------------------------------------------------------------------------
(* generateBalancedKeys *)

options == <<"A", "B", "C", "D">>

\* remainder letters taken without the slice to `remainder` distinct letters:
\* always one letter more than asked for
generateBalancedKeysLong(totalQuestions) ==
    LET baseCount == totalQuestions \div 4
        remainder == totalQuestions % 4
        base == Repeat("A", baseCount) \o Repeat("B", baseCount)
                  \o Repeat("C", baseCount) \o Repeat("D", baseCount)
    IN UNION { shuffleArray(base \o SubSeq(ro, 1, remainder + 1)) :
                   ro \in shuffleArray(options) }

\* one letter drawn at random per question
generateBalancedKeysIndependent(totalQuestions) ==
    [1..totalQuestions -> {"A", "B", "C", "D"}]

generateBalancedKeys(totalQuestions) ==
    LET baseCount == totalQuestions \div 4
        remainder == totalQuestions % 4
        base == Repeat(options[1], baseCount) \o Repeat(options[2], baseCount)
                  \o Repeat(options[3], baseCount) \o Repeat(options[4], baseCount)
    IN IF remainder > 0
       THEN UNION { shuffleArray(base \o SubSeq(ro, 1, remainder)) :
                        ro \in shuffleArray(options) }
       ELSE shuffleArray(base)

----------------------------------------------------------------------------
(* Content model.                                                          *)
(*                                                                         *)
(* A Piece is the content one source paragraph (w:p) contributes:          *)
(*   k      "q"     its text starts with a question label ("Cau 1:")       *)
(*          "opt"   its text matches OPTION_PREFIX_REGEX (letter, optional *)
(*                  blanks, one of . ) :)                                  *)
(*          "loose" its text is a bare option letter                       *)
(*          "plain" anything else (a figure, a continuation line)          *)
(*   letter, sep    the option letter and separator ("-" when none)        *)
(*   gap    blanks stand between the letter and the separator              *)
(*   split  the label's letter (or the question label) is not in one w:t   *)
(*          together with what follows it                                  *)
(*   body   identity of the content behind the label                       *)
(*   ul     some run of the paragraph carries a w:u other than "none"      *)
(*   len    length of the blank-normalised, trimmed text                   *)
(*   rich   holds an m:oMath or a w:drawing                                *)
(*   key    value of an inline <Key=...> marker, "-" when there is none    *)
(*   inl    the text holds an inline run "A. .. B. .. C."                  *)
(*   num    the number written in the question label                       *)
(* A Node is a block element: the pieces merged into it, in order, and the *)
(* tab stops set on it.  A node parsed from the source has one piece.      *)

UpperLetters == {"A", "B", "C", "D"}
LowerLetters == {"a", "b", "c", "d"}

toUpperCase(l) ==
    CASE l = "a" -> "A" [] l = "b" -> "B" [] l = "c" -> "C" [] l = "d" -> "D"
      [] OTHER -> l

Piece(k, letter, sep, body, ul, len) ==
    [k |-> k, letter |-> letter, sep |-> sep, gap |-> FALSE, split |-> FALSE,
     body |-> body, ul |-> ul, len |-> len, rich |-> FALSE, key |-> "-",
     inl |-> FALSE, num |-> 0]

NodeOf(piece) == [pieces |-> <<piece>>, tabs |-> <<>>]

\* node.textContent tested against OPTION_PREFIX_REGEX (anchored at the start)
OPTION_PREFIX_REGEX(node) == node.pieces[1].k = "opt"

\* node.textContent tested against /^(\s*)([A-D]|[a-d])(\s*)$/
looseRegex(node) == Len(node.pieces) = 1 /\ node.pieces[1].k = "loose"

hasUnderline(pNode) == \E i \in DOMAIN pNode.pieces : pNode.pieces[i].ul

\* KEY_REGEX_EXTRACT on the concatenated text of the nodes
KeyNodes(nodes) ==
    { i \in DOMAIN nodes : \E j \in DOMAIN nodes[i].pieces : nodes[i].pieces[j].key # "-" }

KEY_REGEX_EXTRACT(nodes) == KeyNodes(nodes) # {}

----------------------------------------------------------------------------
(* detectType, over the lines of a segment's text (one line per node) *)

\* /^([A-D])[\.\)\:]/ on the trimmed line
IsMcqLine(node) ==
    LET p == node.pieces[1]
    IN p.k = "opt" /\ p.letter \in UpperLetters /\ ~p.gap

\* /^([a-d])[\)\.]/ on the trimmed line
IsTfLine(node) ==
    LET p == node.pieces[1]
    IN p.k = "opt" /\ p.letter \in LowerLetters /\ ~p.gap /\ p.sep \in {")", "."}

\* the letters X of the occurrences "X." "X)" "X:" (X upper case) in text order
RECURSIVE Markers(_)
Markers(nodes) ==
    IF nodes = <<>> THEN <<>>
    ELSE LET p == nodes[1].pieces[1]
             own == IF p.k = "opt" /\ p.letter \in UpperLetters /\ ~p.gap
                    THEN <<p.letter>> ELSE <<>>
             inner == IF p.inl THEN <<"A", "B", "C">> ELSE <<>>
         IN own \o inner \o Markers(Tail(nodes))

\* text.match(/A[\.\)\:].*B[\.\)\:].*C[\.\)\:]/s)
InlineOptions(nodes) ==
    LET m == Markers(nodes)
    IN \E i, j, l \in DOMAIN m :
          i < j /\ j < l /\ m[i] = "A" /\ m[j] = "B" /\ m[l] = "C"

detectType(nodes) ==
    LET mcqCount == Cardinality({ i \in DOMAIN nodes : IsMcqLine(nodes[i]) })
        tfCount == Cardinality({ i \in DOMAIN nodes : IsTfLine(nodes[i]) })
    IN IF KEY_REGEX_EXTRACT(nodes) THEN "SHORT_ANSWER"
       ELSE IF mcqCount >= 2 /\ mcqCount > tfCount THEN "MCQ"
       ELSE IF tfCount >= 2 /\ tfCount > mcqCount THEN "TRUE_FALSE"
       ELSE IF InlineOptions(nodes) THEN "MCQ"
       ELSE "UNKNOWN"

----------------------------------------------------------------------------
(* Section labels.  A label is the sequence of the tokens of its text:     *)
(* "PHAN", "TU", "LUAN" (the words, in any letter case), "sp" (a run of    *)
(* blanks), the numeral characters "I" "V" "X" "4", "." and "w" (any other *)
(* word), "Q" (a question label such as "Câu 1").  The regular expressions *)
(* of the source are matched on tokens.                                    *)

TokenAt(s, i) == IF i \in DOMAIN s THEN s[i] ELSE "$"

\* text.replace(/^\s+/, '')
trimStart(text) == IF text # <<>> /\ text[1] = "sp" THEN Tail(text) ELSE text

\* text.trim()
trim(text) ==
    LET t == trimStart(text)
    IN IF t # <<>> /\ t[Len(t)] = "sp" THEN SubSeq(t, 1, Len(t) - 1) ELSE t

\* /PHAN\s+<numeral>/ somewhere in s, followed by "." when `dot`
MatchPhan(s, numeral, dot) ==
    \E i \in DOMAIN s :
        /\ s[i] = "PHAN"
        /\ \E j \in (i + 1)..Len(s) :
              /\ \A x \in (i + 1)..j : s[x] = "sp"
              /\ \A x \in DOMAIN numeral : TokenAt(s, j + x) = numeral[x]
              /\ dot => TokenAt(s, j + Len(numeral) + 1) = "."

\* /TU\s+LUAN/i
MatchTuLuan(s) ==
    \E i \in DOMAIN s :
        /\ s[i] = "TU"
        /\ \E j \in (i + 1)..Len(s) :
              /\ \A x \in (i + 1)..j : s[x] = "sp"
              /\ TokenAt(s, j + 1) = "LUAN"

\* /^PHAN\s+[IVX]+\./i on the trimmed text, or /TU\s+LUAN/i
isSectionHeader(raw) ==
    LET text == trim(raw)
    IN \/ /\ TokenAt(text, 1) = "PHAN"
          /\ \E j \in 2..Len(text) : \E e \in (j + 1)..Len(text) :
                /\ \A x \in 2..j : text[x] = "sp"
                /\ \A x \in (j + 1)..e : text[x] \in {"I", "V", "X"}
                /\ TokenAt(text, e + 1) = "."
       \/ MatchTuLuan(text)

\* QUESTION_START_REGEX on the text without its leading blanks
isQuestionStart(text) == TokenAt(trimStart(text), 1) = "Q"

\* /PHAN\s+(IV|4)/i or /TU\s+LUAN/i
isEssaySectionLabel(text) ==
    \/ MatchPhan(text, <<"I", "V">>, FALSE)
    \/ MatchPhan(text, <<"4">>, FALSE)
    \/ MatchTuLuan(text)

\* "PHAN <numeral>. w" and "PHAN <numeral>. TU LUAN"
PartLabel(numeral) == <<"PHAN", "sp">> \o numeral \o <<".", "sp", "w">>
EssayPartLabel(numeral) == <<"PHAN", "sp">> \o numeral \o <<".", "sp", "TU", "sp", "LUAN">>

LabelI == PartLabel(<<"I">>)
LabelII == PartLabel(<<"I", "I">>)
LabelIII == PartLabel(<<"I", "I", "I">>)
LabelIV == EssayPartLabel(<<"I", "V">>)
LabelV == PartLabel(<<"V">>)

\* the labels processDocxFile can give a question: "" before the first section
\* header, else the text of a paragraph that isSectionHeader accepts
SectionLabels ==
    {<<>>} \cup
    { l \in { LabelI, LabelII, LabelIII, LabelIV, LabelV,
              PartLabel(<<"I", "V">>), PartLabel(<<"4">>),
              EssayPartLabel(<<"I">>), EssayPartLabel(<<"I", "I">>),
              EssayPartLabel(<<"4">>), <<"TU", "sp", "LUAN">>,
              <<"w", "sp", "TU", "sp", "LUAN">> } : isSectionHeader(l) }

\* the section filters of generateVariants
InP1(section) == MatchPhan(section, <<"I">>, TRUE)
InP2(section) == MatchPhan(section, <<"I", "I">>, TRUE)
InP3(section) == MatchPhan(section, <<"I", "I", "I">>, TRUE)
InP4(section) ==
    \/ MatchPhan(section, <<"I", "V">>, TRUE)
    \/ MatchPhan(section, <<"4">>, TRUE)
    \/ MatchTuLuan(section)
InOther(section) ==
    ~InP1(section) /\ ~InP2(section) /\ ~InP3(section) /\ ~InP4(section)

----------------------------------------------------------------------------
(* processDocxFile / finishCurrentSegment: the QuestionBlock of a segment  *)
(* whose nodes are accumulatedNodes, read under currentSectionLabel.       *)

finishCurrentSegment(accumulatedNodes, currentSectionLabel) ==
    LET t0 == detectType(accumulatedNodes)
        qType == IF isEssaySectionLabel(currentSectionLabel) /\ t0 = "UNKNOWN"
                 THEN "ESSAY" ELSE t0
        hasU == \E i \in DOMAIN accumulatedNodes : hasUnderline(accumulatedNodes[i])
        hasKey == KEY_REGEX_EXTRACT(accumulatedNodes)
        optionNodeCount ==
            IF qType \in {"MCQ", "TRUE_FALSE"}
            THEN Cardinality({ i \in DOMAIN accumulatedNodes :
                                  OPTION_PREFIX_REGEX(accumulatedNodes[i]) })
            ELSE 0
        valid == CASE qType = "MCQ" -> hasU
                   [] qType = "TRUE_FALSE" -> hasU
                   [] qType = "SHORT_ANSWER" -> hasKey
                   [] qType = "ESSAY" -> TRUE
                   [] OTHER -> FALSE
    IN [section |-> currentSectionLabel,
        type |-> qType, xmlContent |-> accumulatedNodes, isValid |-> valid,
        hasUnderline |-> hasU, hasKeyTag |-> hasKey,
        detectedOptionNodes |-> optionNodeCount]

----------------------------------------------------------------------------
(* processDocxFile from the body element on.  A child of w:body is a       *)
(* record: id (its position among the children as parsed), nodeName,       *)
(* textContent (the tokens of its text) and node (its content, as above).  *)
(* The locals of processDocxFile are the fields of one record st.          *)

\* lines 157-166: the last w:sectPr child is serialized and removed
extractSectPr(children) ==
    LET found == { i \in DOMAIN children : children[i].nodeName = "w:sectPr" }
    IN IF found = {} THEN [finalSectPr |-> <<>>, childNodes |-> children]
       ELSE LET i == CHOOSE x \in found : \A y \in found : y <= x
            IN [finalSectPr |-> children[i],
                childNodes |-> SubSeq(children, 1, i - 1)
                                 \o SubSeq(children, i + 1, Len(children))]

SegmenterStart ==
    [currentSegment |-> <<>>, accumulatedNodes |-> <<>>, currentSectionLabel |-> <<>>,
     segments |-> <<>>, questions |-> <<>>]

\* the closure finishCurrentSegment that leaves the accumulated nodes in place
finishSegmentKeepNodes(st) ==
    IF st.currentSegment = <<>> THEN st
    ELSE LET isQuestion == st.currentSegment.type = "question"
             qBlockOf == finishCurrentSegment(
                             [i \in DOMAIN st.accumulatedNodes |-> st.accumulatedNodes[i].node],
                             st.currentSectionLabel)
             done == [type |-> st.currentSegment.type,
                      xmlContent |-> st.accumulatedNodes,
                      textContent |-> st.currentSegment.textContent,
                      questionData |-> IF isQuestion THEN qBlockOf ELSE <<>>]
         IN [st EXCEPT !.questions = IF isQuestion THEN Append(@, qBlockOf) ELSE @,
                       !.segments = Append(@, done),
                       !.currentSegment = <<>>]

\* the closure finishCurrentSegment: the open segment gets its nodes, a
\* question segment its QuestionBlock; the segment is pushed and closed
finishSegment(st) ==
    IF st.currentSegment = <<>> THEN st
    ELSE LET isQuestion == st.currentSegment.type = "question"
             qBlockOf == finishCurrentSegment(
                             [i \in DOMAIN st.accumulatedNodes |-> st.accumulatedNodes[i].node],
                             st.currentSectionLabel)
             done == [type |-> st.currentSegment.type,
                      xmlContent |-> st.accumulatedNodes,
                      textContent |-> st.currentSegment.textContent,
                      questionData |-> IF isQuestion THEN qBlockOf ELSE <<>>]
         IN [st EXCEPT !.questions = IF isQuestion THEN Append(@, qBlockOf) ELSE @,
                       !.segments = Append(@, done),
                       !.accumulatedNodes = <<>>,
                       !.currentSegment = <<>>]

\* the loop body with the section label set before the open segment is closed
segmentNodeLabelFirst(st, node) ==
    IF node.nodeName = "w:p" /\ isSectionHeader(node.textContent)
    THEN [finishSegment([st EXCEPT !.currentSectionLabel = trim(node.textContent)])
            EXCEPT !.currentSegment = [type |-> "static", textContent |-> <<node.textContent>>],
                   !.accumulatedNodes = Append(@, node)]
    ELSE IF node.nodeName = "w:p" /\ isQuestionStart(node.textContent)
    THEN [finishSegment(st)
            EXCEPT !.currentSegment = [type |-> "question", textContent |-> <<node.textContent>>],
                   !.accumulatedNodes = Append(@, node)]
    ELSE LET open == IF st.currentSegment = <<>>
                     THEN [st EXCEPT !.currentSegment = [type |-> "static", textContent |-> <<>>]]
                     ELSE st
         IN [open EXCEPT !.accumulatedNodes = Append(@, node),
                         !.currentSegment.textContent = Append(@, node.textContent)]

\* the loop body, lines 250-273; textContent of a segment is kept as the
\* sequence of its lines
segmentNode(st, node) ==
    IF node.nodeName = "w:p" /\ isSectionHeader(node.textContent)
    THEN [finishSegment(st)
            EXCEPT !.currentSectionLabel = trim(node.textContent),
                   !.currentSegment = [type |-> "static", textContent |-> <<node.textContent>>],
                   !.accumulatedNodes = Append(@, node)]
    ELSE IF node.nodeName = "w:p" /\ isQuestionStart(node.textContent)
    THEN [finishSegment(st)
            EXCEPT !.currentSegment = [type |-> "question", textContent |-> <<node.textContent>>],
                   !.accumulatedNodes = Append(@, node)]
    ELSE LET open == IF st.currentSegment = <<>>
                     THEN [st EXCEPT !.currentSegment = [type |-> "static", textContent |-> <<>>]]
                     ELSE st
         IN [open EXCEPT !.accumulatedNodes = Append(@, node),
                         !.currentSegment.textContent = Append(@, node.textContent)]

\* the loop over the children; the state after each child is bound once
RECURSIVE segmentAll(_, _)
segmentAll(st, nodes) ==
    IF nodes = <<>> THEN st
    ELSE CHOOSE r \in { segmentAll(next, Tail(nodes)) :
                          next \in {segmentNode(st, Head(nodes))} } : TRUE

\* messages of the errors processDocxFile throws (written without diacritics)
ErrNoDocument == "Khong tim thay word/document.xml. File docx khong hop le."
ErrNoBody == "Cau truc file loi (thieu w:body)."

\* processDocxFile on a package: hasDocument (word/document.xml is in the
\* package), hasBody (the document has a w:body), children (of the body).
\* The result is the error message of the rejection, "" when it resolves,
\* and the ProcessedDoc.
processDocxFile(file) ==
    IF ~file.hasDocument THEN [error |-> ErrNoDocument, doc |-> <<>>]
    ELSE IF ~file.hasBody THEN [error |-> ErrNoBody, doc |-> <<>>]
    ELSE CHOOSE processed \in
             { [error |-> "",
                doc |-> [questions |-> st.questions, segments |-> st.segments,
                         finalSectPr |-> r.finalSectPr]] :
                 r \in {extractSectPr(file.children)},
                 st \in { finishSegment(last) :
                            last \in { segmentAll(SegmenterStart, x.childNodes) :
                                         x \in {extractSectPr(file.children)} } } } : TRUE

----------------------------------------------------------------------------
(* getAnswerFromNodes.  An answer is the sequence of its symbols: <<>> is  *)
(* the empty string, <<"C">> the letter C.                                 *)

TrueMark == "D+"
FalseMark == "S"

\* first node, in document order, that matches the option pattern and is underlined
FirstUnderlinedOption(nodes) ==
    LET hits == { i \in DOMAIN nodes :
                     OPTION_PREFIX_REGEX(nodes[i]) /\ hasUnderline(nodes[i]) }
    IN IF hits = {} THEN 0 ELSE CHOOSE i \in hits : \A j \in hits : i <= j

\* one symbol per node, option or not
RECURSIVE TrueFalseSeqEveryNode(_)
TrueFalseSeqEveryNode(nodes) ==
    IF nodes = <<>> THEN <<>>
    ELSE <<IF hasUnderline(nodes[1]) THEN TrueMark ELSE FalseMark>>
           \o TrueFalseSeqEveryNode(Tail(nodes))

RECURSIVE TrueFalseSeq(_)
TrueFalseSeq(nodes) ==
    IF nodes = <<>> THEN <<>>
    ELSE (IF OPTION_PREFIX_REGEX(nodes[1])
          THEN <<IF hasUnderline(nodes[1]) THEN TrueMark ELSE FalseMark>>
          ELSE <<>>) \o TrueFalseSeq(Tail(nodes))

KeyValue(nodes) ==
    LET i == CHOOSE x \in KeyNodes(nodes) : \A y \in KeyNodes(nodes) : x <= y
        js == { j \in DOMAIN nodes[i].pieces : nodes[i].pieces[j].key # "-" }
        j == CHOOSE x \in js : \A y \in js : x <= y
    IN nodes[i].pieces[j].key

\* the characters of a captured key text: a padded value, an empty one, or
\* a one-character value
KeyChars(key) ==
    CASE key = " 5 " -> <<" ", "5", " ">> [] key = "" -> <<>> [] OTHER -> <<key>>

\* leading blanks removed only
RECURSIVE trimCharsStart(_)
trimCharsStart(t) ==
    IF t # <<>> /\ t[1] \in {" ", "\n"} THEN trimCharsStart(Tail(t)) ELSE t

\* String.prototype.trim on a sequence of characters
RECURSIVE trimChars(_)
trimChars(t) ==
    IF t # <<>> /\ t[1] \in {" ", "\n"} THEN trimChars(Tail(t))
    ELSE IF t # <<>> /\ t[Len(t)] \in {" ", "\n"} THEN trimChars(SubSeq(t, 1, Len(t) - 1))
    ELSE t

\* `original` are the nodes whose text is the question's textContent
getAnswerFromNodes(nodes, type, original) ==
    CASE type = "SHORT_ANSWER" ->
            IF KEY_REGEX_EXTRACT(original)
            THEN trimChars(KeyChars(KeyValue(original))) ELSE <<>>
      [] type = "ESSAY" -> <<>>
      [] type = "MCQ" ->
            LET i == FirstUnderlinedOption(nodes)
            IN IF i = 0 THEN <<>> ELSE <<toUpperCase(nodes[i].pieces[1].letter)>>
      [] type = "TRUE_FALSE" -> TrueFalseSeq(nodes)
      [] OTHER -> <<>>

----------------------------------------------------------------------------
(* replaceOptionLabel: rewrites the first w:t of the node that matches the *)
(* standard pattern (letter, blanks, separator: letter and separator are   *)
(* replaced, the blanks dropped) or the loose one (a bare letter: only the *)
(* letter is replaced).                                                    *)

replaceOptionLabel(node, newLabel, separator) ==
    LET p == node.pieces[1]
    IN IF p.k = "opt" /\ ~p.split
       THEN [node EXCEPT !.pieces[1].letter = newLabel,
                         !.pieces[1].sep = separator,
                         !.pieces[1].gap = FALSE]
       ELSE IF p.k \in {"opt", "loose"}
       THEN [node EXCEPT !.pieces[1].letter = newLabel]
       ELSE node

----------------------------------------------------------------------------
(* shuffleQuestionOptions: the set of node lists it can return.            *)
(* targetLabel "" stands for an absent (undefined) target.                 *)

labelsMCQ == <<"A", "B", "C", "D", "E", "F">>
labelsTF == <<"a", "b", "c", "d", "e", "f">>

LabelAt(labels, idx) == IF idx \in DOMAIN labels THEN labels[idx] ELSE "undefined"

\* targetMap[targetLabel] ?? 0, as a 0-based index
targetMap(targetLabel) ==
    CASE targetLabel = "A" -> 0 [] targetLabel = "B" -> 1
      [] targetLabel = "C" -> 2 [] targetLabel = "D" -> 3 [] OTHER -> 0

\* the elements of a set of indices in increasing order
RECURSIVE SortedSeq(_)
SortedSeq(S) ==
    IF S = {} THEN <<>>
    ELSE LET m == CHOOSE x \in S : \A y \in S : x <= y
         IN <<m>> \o SortedSeq(S \ {m})

IsOptionNode(node) == OPTION_PREFIX_REGEX(node) \/ looseRegex(node)

optionIndicesOf(nodes) == SortedSeq({ i \in DOMAIN nodes : IsOptionNode(nodes[i]) })

\* separator of the last node matching the strict pattern, "." when there is none
detectedSeparatorOf(nodes) ==
    LET strict == { i \in DOMAIN nodes : OPTION_PREFIX_REGEX(nodes[i]) }
    IN IF strict = {} THEN "."
       ELSE nodes[CHOOSE i \in strict : \A j \in strict : j <= i].pieces[1].sep

\* index of the last underlined option node of an MCQ, 0 when there is none
correctOptionIndexOriginalOf(nodes, type) ==
    LET hits == { i \in DOMAIN nodes :
                     IsOptionNode(nodes[i]) /\ type = "MCQ" /\ hasUnderline(nodes[i]) }
    IN IF hits = {} THEN 0 ELSE CHOOSE i \in hits : \A j \in hits : j <= i

\* the pinned node written at the target position and, again, at the last one
ShuffledOrdersDup(nodes, type, targetLabel) ==
    LET optionIndices == optionIndicesOf(nodes)
        n == Len(optionIndices)
        correct == correctOptionIndexOriginalOf(nodes, type)
    IN IF type = "MCQ" /\ targetLabel # "" /\ correct # 0
       THEN LET distractors == SelectSeq(optionIndices, LAMBDA i : i # correct)
                t0 == targetMap(targetLabel)
                targetIndex == IF t0 >= n THEN t0 % n ELSE t0
            IN { [i \in 1..n |->
                     IF i = targetIndex + 1 \/ i = n THEN correct
                     ELSE IF i <= targetIndex THEN sd[i] ELSE sd[i - 1]] :
                   sd \in shuffleArray(distractors) }
       ELSE shuffleArray(optionIndices)

\* the orders (sequences of source indices) the option nodes can be put in
ShuffledOrders(nodes, type, targetLabel) ==
    LET optionIndices == optionIndicesOf(nodes)
        n == Len(optionIndices)
        correct == correctOptionIndexOriginalOf(nodes, type)
    IN IF type = "MCQ" /\ targetLabel # "" /\ correct # 0
       THEN LET distractors == SelectSeq(optionIndices, LAMBDA i : i # correct)
                t0 == targetMap(targetLabel)
                targetIndex == IF t0 >= n THEN t0 % n ELSE t0
            IN { [i \in 1..n |->
                     IF i = targetIndex + 1 THEN correct
                     ELSE IF i <= targetIndex THEN sd[i] ELSE sd[i - 1]] :
                   sd \in shuffleArray(distractors) }
       ELSE shuffleArray(optionIndices)

\* relabel the option nodes taken in `order` and write them back to the option slots
PlaceShuffled(nodes, type, order) ==
    LET optionIndices == optionIndicesOf(nodes)
        detectedSeparator == detectedSeparatorOf(nodes)
        separatorToUse == IF type = "MCQ" THEN "." ELSE detectedSeparator
        relabelled(i) ==
            replaceOptionLabel(nodes[order[i]],
                               LabelAt(IF type = "MCQ" THEN labelsMCQ ELSE labelsTF, i),
                               separatorToUse)
        slot(originalIndex) ==
            CHOOSE i \in DOMAIN optionIndices : optionIndices[i] = originalIndex
    IN [x \in DOMAIN nodes |->
           IF IsOptionNode(nodes[x]) THEN relabelled(slot(x)) ELSE nodes[x]]

shuffleQuestionOptions(nodes, type, targetLabel) ==
    IF type = "ESSAY" THEN {nodes}
    ELSE IF Len(optionIndicesOf(nodes)) < 2 THEN {nodes}
    ELSE { PlaceShuffled(nodes, type, order) :
              order \in ShuffledOrders(nodes, type, targetLabel) }

----------------------------------------------------------------------------
(* reformatMCQLayout *)

LowThreshold == 10
MidThreshold == 30
RichPenalty == 20

RECURSIVE SumLen(_)
SumLen(pieces) == IF pieces = <<>> THEN 0 ELSE pieces[1].len + SumLen(Tail(pieces))

\* normalised text length, plus the penalty for a formula or an image
textLen(n) ==
    SumLen(n.pieces)
      + (IF \E i \in DOMAIN n.pieces : n.pieces[i].rich THEN RichPenalty ELSE 0)

RECURSIVE MaxOf(_)
MaxOf(s) == IF Len(s) = 1 THEN s[1] ELSE Max2(s[1], MaxOf(Tail(s)))

mergeParagraphsWithTab(pDest, pSource) ==
    [pDest EXCEPT !.pieces = pDest.pieces \o pSource.pieces]

setupParagraphTab(pNode, tabPositions) == [pNode EXCEPT !.tabs = tabPositions]

reformatMCQLayout(nodes) ==
    IF Len(nodes) # 4 THEN nodes
    ELSE LET maxLength == MaxOf([i \in 1..4 |-> textLen(nodes[i])])
         IN IF maxLength <= LowThreshold
            THEN LET base == mergeParagraphsWithTab(
                               mergeParagraphsWithTab(
                                 mergeParagraphsWithTab(nodes[1], nodes[2]),
                                 nodes[3]),
                               nodes[4])
                 IN <<setupParagraphTab(base, <<2250, 4500, 6750>>)>>
            ELSE IF maxLength <= MidThreshold
            THEN LET row1 == mergeParagraphsWithTab(nodes[1], nodes[2])
                     row2 == mergeParagraphsWithTab(nodes[3], nodes[4])
                 IN <<setupParagraphTab(row1, <<4500>>), setupParagraphTab(row2, <<4500>>)>>
            ELSE nodes

----------------------------------------------------------------------------
(* generateVariants / appendQuestions, for one question *)

\* replaceQuestionLabel: a w:t matching QUESTION_START_REGEX gets the new number
replaceQuestionLabel(node, newNum) ==
    IF node.pieces[1].k = "q" /\ ~node.pieces[1].split
    THEN [node EXCEPT !.pieces[1].num = newNum]
    ELSE node

\* removal of w:u (with w:color, w:highlight, w:shd) and of the key tags
StripNode(node) ==
    [node EXCEPT !.pieces = [i \in DOMAIN node.pieces |->
                                [node.pieces[i] EXCEPT !.ul = FALSE, !.key = "-"]]]

StripNodes(nodes) == [i \in DOMAIN nodes |-> StripNode(nodes[i])]

\* the option letters standing in the nodes, in order ("-" where a run holds none)
RECURSIVE LettersOf(_)
LettersOf(nodes) ==
    IF nodes = <<>> THEN <<>>
    ELSE [x \in DOMAIN nodes[1].pieces |-> nodes[1].pieces[x].letter] \o LettersOf(Tail(nodes))

\* the node lists with the options shuffled whatever the mix options say
PreparedNodesAlwaysShuffle(q, shuffleOptions, targetKey, displayLabel) ==
    LET parsed == q.xmlContent
        qNodes == IF Len(parsed) > 0
                  THEN [parsed EXCEPT ![1] = replaceQuestionLabel(parsed[1], displayLabel)]
                  ELSE parsed
    IN IF q.type = "MCQ"
       THEN { reformatMCQLayout(sh) : sh \in shuffleQuestionOptions(qNodes, q.type, targetKey) }
       ELSE IF q.type = "TRUE_FALSE"
       THEN shuffleQuestionOptions(qNodes, q.type, "")
       ELSE {qNodes}

\* the node lists before the answer is read: shuffled and reformatted
PreparedNodes(q, shuffleOptions, targetKey, displayLabel) ==
    LET parsed == q.xmlContent
        qNodes == IF Len(parsed) > 0
                  THEN [parsed EXCEPT ![1] = replaceQuestionLabel(parsed[1], displayLabel)]
                  ELSE parsed
    IN IF shuffleOptions /\ q.type = "MCQ"
       THEN { reformatMCQLayout(sh) : sh \in shuffleQuestionOptions(qNodes, q.type, targetKey) }
       ELSE IF shuffleOptions /\ q.type = "TRUE_FALSE"
       THEN shuffleQuestionOptions(qNodes, q.type, "")
       ELSE {qNodes}

\* what appendQuestions does with one question: the nodes it appends to the
\* variant body and the answer it records
appendQuestion(q, shuffleOptions, targetKey, displayLabel) ==
    { [emitted |-> StripNodes(qNodes),
       ans |-> getAnswerFromNodes(qNodes, q.type, q.xmlContent)] :
        qNodes \in PreparedNodes(q, shuffleOptions, targetKey, displayLabel) }

----------------------------------------------------------------------------
(* Section buckets of generateVariants *)

\* bucket b of 1..5: Part I, II, III, IV (free response), other
InBucket(b, section) ==
    CASE b = 1 -> InP1(section) [] b = 2 -> InP2(section) [] b = 3 -> InP3(section)
      [] b = 4 -> InP4(section) [] OTHER -> InOther(section)

\* questions.filter(...): the indices of the questions of bucket b, in source order
BucketQuestions(questions, b) ==
    SortedSeq({ i \in DOMAIN questions : InBucket(b, questions[i].section) })

----------------------------------------------------------------------------
(* Exam codes as text: (startCode + i - 1).toString() and Number(code) *)

RECURSIVE toString(_)
toString(n) == IF n < 10 THEN <<n>> ELSE toString(n \div 10) \o <<n % 10>>

RECURSIVE Number(_)
Number(str) ==
    IF Len(str) = 0 THEN 0
    ELSE 10 * Number(SubSeq(str, 1, Len(str) - 1)) + str[Len(str)]

\* a before b in the order of the default Array.prototype.sort (by code unit)
RECURSIVE LexLess(_, _)
LexLess(a, b) ==
    IF b = <<>> THEN FALSE
    ELSE IF a = <<>> THEN TRUE
    ELSE IF a[1] # b[1] THEN a[1] < b[1]
    ELSE LexLess(Tail(a), Tail(b))

NumLess(a, b) == Number(a) < Number(b)

\* codes.sort((a, b) => Number(a) - Number(b)) on distinct codes
RECURSIVE SortCodes(_)
SortCodes(S) ==
    IF S = {} THEN <<>>
    ELSE LET m == CHOOSE x \in S : \A y \in S \ {x} : NumLess(x, y)
         IN <<m>> \o SortCodes(S \ {m})

\* codes.sort() without a comparator
RECURSIVE SortCodesLex(_)
SortCodesLex(S) ==
    IF S = {} THEN <<>>
    ELSE LET m == CHOOSE x \in S : \A y \in S \ {x} : LexLess(x, y)
         IN <<m>> \o SortCodesLex(S \ {m})

----------------------------------------------------------------------------
(* generateVariants: appendQuestions and processSectionGroup.              *)
(* What is kept of a question appended to the variant body: the question   *)
(* (its index in docData.questions), the number written in its label, the  *)
(* row of the answer map it fills, the answer, the target key it was given *)
(* ("" when none), the number of nodes appended, the number standing in    *)
(* the label of the first appended node and the option letters standing in *)
(* the appended nodes.                                                     *)

Appended(questions, qi, shuffleOptions, targetKey, displayLabel, stt) ==
    { [q |-> qi, num |-> displayLabel, stt |-> stt, ans |-> r.ans,
       target |-> IF shuffleOptions /\ questions[qi].type = "MCQ" THEN targetKey ELSE "",
       nodes |-> Len(r.emitted), written |-> r.emitted[1].pieces[1].num,
       labels |-> LettersOf(r.emitted)] :
        r \in appendQuestion(questions[qi], shuffleOptions, targetKey, displayLabel) }

RECURSIVE appendQuestions(_, _, _, _, _, _)
appendQuestions(questions, qs, balancedMCQKeys, shuffleOptions, label, stt) ==
    IF qs = <<>> THEN {<<>>}
    ELSE LET qi == Head(qs)
             takes == shuffleOptions /\ questions[qi].type = "MCQ"
             targetKey == IF Len(balancedMCQKeys) > 0 THEN Head(balancedMCQKeys) ELSE "A"
             rest == IF takes /\ Len(balancedMCQKeys) > 0
                     THEN Tail(balancedMCQKeys) ELSE balancedMCQKeys
         IN { <<h>> \o t :
                h \in Appended(questions, qi, shuffleOptions, targetKey, label, stt),
                t \in appendQuestions(questions, Tail(qs), rest, shuffleOptions,
                                      label + 1, stt + 1) }

OfType(questions, group, type) == SelectSeq(group, LAMBDA i : questions[i].type = type)

\* processSectionGroup shuffling whatever keepOrder says
processSectionGroupShuffleAll(questions, groupQuestions, keepOrder, mixOptions, stt) ==
    LET mcqs == OfType(questions, groupQuestions, "MCQ")
        tfs == OfType(questions, groupQuestions, "TRUE_FALSE")
        sas == OfType(questions, groupQuestions, "SHORT_ANSWER")
        essays == OfType(questions, groupQuestions, "ESSAY")
        unknowns == OfType(questions, groupQuestions, "UNKNOWN")
        order(qs) == IF mixOptions.shuffleQuestions THEN shuffleArray(qs) ELSE {qs}
        so == mixOptions.shuffleOptions
        n1 == Len(mcqs)
        n2 == n1 + Len(tfs)
        n3 == n2 + Len(sas)
        n4 == n3 + Len(essays)
    IN UNION { { a \o b \o c \o d \o e :
                   a \in appendQuestions(questions, finalMCQs, balancedKeys, so, 1, stt),
                   b \in appendQuestions(questions, finalTFs, <<>>, so, 1 + n1, stt + n1),
                   c \in appendQuestions(questions, finalSAs, <<>>, so, 1 + n2, stt + n2),
                   d \in appendQuestions(questions, finalEssays, <<>>, so, 1 + n3, stt + n3),
                   e \in appendQuestions(questions, unknowns, <<>>, so, 1 + n4, stt + n4) } :
                finalMCQs \in order(mcqs), finalTFs \in order(tfs),
                finalSAs \in order(sas), finalEssays \in order(essays),
                balancedKeys \in IF so THEN generateBalancedKeys(n1) ELSE {<<>>} }

\* the sequences of appended questions one call of processSectionGroup can produce
processSectionGroup(questions, groupQuestions, keepOrder, mixOptions, stt) ==
    LET mcqs == OfType(questions, groupQuestions, "MCQ")
        tfs == OfType(questions, groupQuestions, "TRUE_FALSE")
        sas == OfType(questions, groupQuestions, "SHORT_ANSWER")
        essays == OfType(questions, groupQuestions, "ESSAY")
        unknowns == OfType(questions, groupQuestions, "UNKNOWN")
        doShuffle == mixOptions.shuffleQuestions /\ ~keepOrder
        order(qs) == IF doShuffle THEN shuffleArray(qs) ELSE {qs}
        so == mixOptions.shuffleOptions
        n1 == Len(mcqs)
        n2 == n1 + Len(tfs)
        n3 == n2 + Len(sas)
        n4 == n3 + Len(essays)
    IN UNION { { a \o b \o c \o d \o e :
                   a \in appendQuestions(questions, finalMCQs, balancedKeys, so, 1, stt),
                   b \in appendQuestions(questions, finalTFs, <<>>, so, 1 + n1, stt + n1),
                   c \in appendQuestions(questions, finalSAs, <<>>, so, 1 + n2, stt + n2),
                   d \in appendQuestions(questions, finalEssays, <<>>, so, 1 + n3, stt + n3),
                   e \in appendQuestions(questions, unknowns, <<>>, so, 1 + n4, stt + n4) } :
                finalMCQs \in order(mcqs), finalTFs \in order(tfs),
                finalSAs \in order(sas), finalEssays \in order(essays),
                balancedKeys \in IF so THEN generateBalancedKeys(n1) ELSE {<<>>} }

----------------------------------------------------------------------------
(* Specification SpecKeys: calls of generateBalancedKeys *)

KeysIdle == kpc = "idle" /\ kn = 0 /\ keys = <<>>
QuestionIdle ==
    /\ qpc = "idle" /\ qBlock = <<>> /\ qArgs = <<>> /\ qOut = <<>> /\ qAns = <<>>
    /\ qIssues = <<>>
GenIdle ==
    /\ gpc = "idle" /\ docData = <<>> /\ gArgs = <<>> /\ zip = <<>> /\ gi = 0
    /\ cur = <<>> /\ allVariantAnswers = <<>> /\ masterZip = <<>> /\ matrix = <<>>
CleanIdle == cpc = "idle" /\ cIn = <<>> /\ cOut = <<>>
AppIdle == app = <<>> /\ pending = <<>> /\ apiKey = FALSE /\ nextCode = 0
StripIdle ==
    tpc = "idle" /\ tIn = <<>> /\ tAns = <<>> /\ tOut = <<>>
BatchIdle ==
    /\ bpc = "idle" /\ bSource = <<>> /\ bZip = <<>> /\ bArgs = <<>>
    /\ bRids = <<>> /\ bOut = <<>>
SegmentIdle ==
    /\ spc = "idle" /\ sBody = <<>> /\ childNodes = <<>> /\ si = 0 /\ seg = <<>>
    /\ finalSectPr = <<>>

CallGenerateBalancedKeys ==
    \E n \in 0..MaxKeys :
        \E r \in generateBalancedKeys(n) :
            /\ kpc' = "done"
            /\ kn' = n
            /\ keys' = r
            /\ UNCHANGED <<questionVars, genVars, cleanVars, segmentVars, appVars, stripVars, batchVars>>

KeysInit == KeysIdle /\ QuestionIdle /\ GenIdle /\ CleanIdle /\ SegmentIdle /\ AppIdle /\ StripIdle /\ BatchIdle
KeysNext == CallGenerateBalancedKeys
SpecKeys == KeysInit /\ [][KeysNext]_vars

----------------------------------------------------------------------------
(* Source questions.  A question is a stem paragraph, `extra` plain        *)
(* paragraphs and k option paragraphs lettered in order.                   *)

Lens == {8, 25, 40}
Separators == {".", ")", ":"}
Targets == {"", "A", "B", "C", "D"}

LetterAt(lower, i) == LabelAt(IF lower THEN labelsTF ELSE labelsMCQ, i)

StemNode(ul, len, key) ==
    NodeOf([Piece("q", "-", "-", 0, ul, len) EXCEPT !.key = key, !.num = 7])

ExtraNode(i) == NodeOf(Piece("plain", "-", "-", 100 + i, FALSE, 8))

OptionNode(lower, i, sep, ul, len) == NodeOf(Piece("opt", LetterAt(lower, i), sep, i, ul, len))

BuildNodes(k, lower, sep, ulSet, stemUl, extra, stemLen, optLen) ==
    <<StemNode(stemUl, stemLen, "-")>>
      \o [i \in 1..extra |-> ExtraNode(i)]
      \o [i \in 1..k |-> OptionNode(lower, i, sep, i \in ulSet, optLen)]

\* every underline pattern, both letter cases, with and without a figure
CoreQuestions ==
    { BuildNodes(k, lower, sep, ulSet, stemUl, extra, 40, 8) :
        k \in 0..MaxOptions, lower \in BOOLEAN, sep \in {".", ")"},
        ulSet \in SUBSET (1..MaxOptions), stemUl \in BOOLEAN, extra \in 0..MaxExtra }

\* every combination of text lengths, one option underlined
LayoutQuestions ==
    { BuildNodes(k, FALSE, ".", {u}, FALSE, extra, stemLen, optLen) :
        k \in 2..MaxOptions, u \in 1..2, extra \in 0..MaxExtra,
        stemLen \in Lens, optLen \in Lens }

\* one option holding a formula
RichQuestions ==
    { [n EXCEPT ![Len(n)].pieces[1].rich = TRUE] : n \in LayoutQuestions }

\* labels written with a blank before the separator, labels split over two
\* w:t, a first option that is a bare letter, two options of equal content
StyledQuestions ==
    UNION { LET n == BuildNodes(k, lower, sep, ulSet, FALSE, 0, 40, 8)
                first == 2
            IN { [i \in DOMAIN n |-> IF i >= first
                                      THEN [n[i] EXCEPT !.pieces[1].gap = TRUE] ELSE n[i]],
                 [i \in DOMAIN n |-> IF i >= first
                                      THEN [n[i] EXCEPT !.pieces[1].split = TRUE] ELSE n[i]],
                 [n EXCEPT ![first].pieces[1].k = "loose", ![first].pieces[1].sep = "-"],
                 [n EXCEPT ![first].pieces[1].body = 2, ![first].pieces[1].ul = n[3].pieces[1].ul] } :
            k \in 2..3, lower \in BOOLEAN, sep \in Separators,
            ulSet \in {{}, {1}, {2}} }

\* short-answer questions (<Key=5>, <Key= 5 >, <Key=>), questions without
\* options, the shortest question
\* text there is ("Câu1"), a question with as many upper-case as lower-case
\* option lines
OtherQuestions ==
    { <<StemNode(FALSE, 40, "5")>>, <<StemNode(FALSE, 40, " 5 ")>>,
      <<StemNode(FALSE, 40, "")>>, <<StemNode(FALSE, 40, "-")>>,
      <<StemNode(TRUE, 40, "-"), ExtraNode(1)>>,
      <<[StemNode(FALSE, 40, "-") EXCEPT !.pieces[1].inl = TRUE]>>,
      <<[StemNode(TRUE, 40, "-") EXCEPT !.pieces[1].inl = TRUE]>>,
      <<StemNode(FALSE, 4, "-")>>,
      <<StemNode(FALSE, 40, "-")>>
        \o [i \in 1..3 |-> OptionNode(FALSE, i, ".", FALSE, 8)]
        \o [i \in 1..3 |-> [OptionNode(TRUE, i, ")", i = 1, 8) EXCEPT !.pieces[1].body = 10 + i]] }

SourceQuestions ==
    CoreQuestions \cup LayoutQuestions \cup RichQuestions \cup StyledQuestions
      \cup OtherQuestions

----------------------------------------------------------------------------
(* getValidationIssues.  An issue keeps the index of its question, the     *)
(* question's type, which message it carries and its severity.             *)

EssayMinLength == 5

RECURSIVE textContentLength(_)
textContentLength(nodes) ==
    IF nodes = <<>> THEN 0
    ELSE SumLen(nodes[1].pieces) + textContentLength(Tail(nodes))

Issue(index, q, issue, severity) ==
    [questionIndex |-> index, questionType |-> q.type, issue |-> issue,
     severity |-> severity]

\* the missing key tag reported as a warning
issuesOfLenient(q, index) ==
    IF q.type = "SHORT_ANSWER" /\ ~q.hasKeyTag
    THEN <<Issue(index, q, "missingKeyTag", "warning")>> ELSE <<>>

\* an MCQ failing both of its rules reported once
issuesOfFirstOnly(q, index) ==
    CASE q.type = "MCQ" ->
            IF q.detectedOptionNodes < 2
            THEN <<Issue(index, q, "optionsNotOnOwnLines", "error")>>
            ELSE IF ~q.hasUnderline
                 THEN <<Issue(index, q, "noUnderlinedAnswer", "error")>> ELSE <<>>
      [] q.type = "TRUE_FALSE" ->
            IF ~q.hasUnderline
            THEN <<Issue(index, q, "noUnderlinedItem", "warning")>> ELSE <<>>
      [] q.type = "SHORT_ANSWER" ->
            IF ~q.hasKeyTag
            THEN <<Issue(index, q, "missingKeyTag", "error")>> ELSE <<>>
      [] q.type = "ESSAY" ->
            IF textContentLength(q.xmlContent) < EssayMinLength
            THEN <<Issue(index, q, "essayTooShort", "warning")>> ELSE <<>>
      [] OTHER -> <<Issue(index, q, "unknownType", "error")>>

issuesOf(q, index) ==
    CASE q.type = "MCQ" ->
            (IF q.detectedOptionNodes < 2
             THEN <<Issue(index, q, "optionsNotOnOwnLines", "error")>> ELSE <<>>)
            \o (IF ~q.hasUnderline
                THEN <<Issue(index, q, "noUnderlinedAnswer", "error")>> ELSE <<>>)
      [] q.type = "TRUE_FALSE" ->
            IF ~q.hasUnderline
            THEN <<Issue(index, q, "noUnderlinedItem", "warning")>> ELSE <<>>
      [] q.type = "SHORT_ANSWER" ->
            IF ~q.hasKeyTag
            THEN <<Issue(index, q, "missingKeyTag", "error")>> ELSE <<>>
      [] q.type = "ESSAY" ->
            IF textContentLength(q.xmlContent) < EssayMinLength
            THEN <<Issue(index, q, "essayTooShort", "warning")>> ELSE <<>>
      [] OTHER -> <<Issue(index, q, "unknownType", "error")>>

RECURSIVE issuesFrom(_, _)
issuesFrom(questions, index) ==
    IF index > Len(questions) THEN <<>>
    ELSE issuesOf(questions[index], index - 1) \o issuesFrom(questions, index + 1)

getValidationIssues(questions) == issuesFrom(questions, 1)

----------------------------------------------------------------------------
(* Specification SpecQuestion: one question of a processed document, and   *)
(* the calls generateVariants makes on it.                                 *)

QuestionLoaded ==
    \E nodes \in SourceQuestions, section \in {<<>>, LabelIV} :
        /\ section = LabelIV => Len(nodes) <= 2
        /\ qpc = "loaded"
        /\ qBlock = finishCurrentSegment(nodes, section)
        /\ qArgs = <<>>
        /\ qOut = <<>>
        /\ qAns = <<>>
        /\ qIssues = <<>>

\* getValidationIssues on the question alone
CallValidate ==
    /\ qpc = "loaded"
    /\ qpc' = "validated"
    /\ qIssues' = getValidationIssues(<<qBlock>>)
    /\ UNCHANGED <<qBlock, qArgs, qOut, qAns>>
    /\ UNCHANGED <<keyVars, genVars, cleanVars, segmentVars, appVars, stripVars, batchVars>>

\* getAnswerFromNodes on the nodes as parsed from the source
CallResolveSource ==
    /\ qpc = "loaded"
    /\ qpc' = "resolvedSource"
    /\ qOut' = qBlock.xmlContent
    /\ qAns' = getAnswerFromNodes(qBlock.xmlContent, qBlock.type, qBlock.xmlContent)
    /\ UNCHANGED <<qBlock, qArgs, qIssues>>
    /\ UNCHANGED <<keyVars, genVars, cleanVars, segmentVars, appVars, stripVars, batchVars>>

\* shuffleQuestionOptions on the nodes as parsed from the source
CallShuffle ==
    /\ qpc = "loaded"
    /\ qBlock.type \in {"MCQ", "TRUE_FALSE"}
    /\ \E targetLabel \in Targets :
         \E r \in shuffleQuestionOptions(qBlock.xmlContent, qBlock.type, targetLabel) :
            /\ qArgs' = [targetLabel |-> targetLabel]
            /\ qOut' = r
    /\ qpc' = "shuffled"
    /\ UNCHANGED <<qBlock, qAns, qIssues>>
    /\ UNCHANGED <<keyVars, genVars, cleanVars, segmentVars, appVars, stripVars, batchVars>>

\* getAnswerFromNodes on the shuffled nodes
CallResolveShuffled ==
    /\ qpc = "shuffled"
    /\ qpc' = "resolved"
    /\ qAns' = getAnswerFromNodes(qOut, qBlock.type, qBlock.xmlContent)
    /\ UNCHANGED <<qBlock, qArgs, qOut, qIssues>>
    /\ UNCHANGED <<keyVars, genVars, cleanVars, segmentVars, appVars, stripVars, batchVars>>

\* the body of appendQuestions for this question
CallAppend ==
    /\ qpc = "loaded"
    /\ \E shuffleOptions \in BOOLEAN, targetKey \in UpperLetters, displayLabel \in {1} :
         \E r \in appendQuestion(qBlock, shuffleOptions, targetKey, displayLabel) :
            /\ qArgs' = [shuffleOptions |-> shuffleOptions, targetKey |-> targetKey,
                         displayLabel |-> displayLabel]
            /\ qOut' = r.emitted
            /\ qAns' = r.ans
    /\ qpc' = "appended"
    /\ UNCHANGED <<qBlock, qIssues>>
    /\ UNCHANGED <<keyVars, genVars, cleanVars, segmentVars, appVars, stripVars, batchVars>>

QuestionInit == QuestionLoaded /\ KeysIdle /\ GenIdle /\ CleanIdle /\ SegmentIdle /\ AppIdle /\ StripIdle /\ BatchIdle
QuestionNext ==
    CallValidate \/ CallResolveSource \/ CallShuffle \/ CallResolveShuffled \/ CallAppend
SpecQuestion == QuestionInit /\ [][QuestionNext]_vars

----------------------------------------------------------------------------
(* Specification SpecIssues: getValidationIssues called on a QuestionBlock *)
(* of any field values (the function is exported and reads the fields).    *)

QuestionTypes == {"MCQ", "TRUE_FALSE", "SHORT_ANSWER", "ESSAY", "UNKNOWN"}

QuestionBlocks ==
    { [section |-> <<>>, type |-> type, xmlContent |-> <<StemNode(FALSE, len, "-")>>,
       isValid |-> valid, hasUnderline |-> hasU, hasKeyTag |-> hasKey,
       detectedOptionNodes |-> optionNodeCount] :
        type \in QuestionTypes, len \in {4, 8}, valid \in BOOLEAN, hasU \in BOOLEAN,
        hasKey \in BOOLEAN, optionNodeCount \in 0..MaxOptions }

IssuesCalled ==
    /\ qpc = "loaded"
    /\ qBlock \in QuestionBlocks
    /\ qArgs = <<>>
    /\ qOut = <<>>
    /\ qAns = <<>>
    /\ qIssues = <<>>

IssuesInit == IssuesCalled /\ KeysIdle /\ GenIdle /\ CleanIdle /\ SegmentIdle /\ AppIdle /\ StripIdle /\ BatchIdle
IssuesNext == CallValidate
SpecIssues == IssuesInit /\ [][IssuesNext]_vars

----------------------------------------------------------------------------
(* Specification SpecSegment: processDocxFile from the body element on,    *)
(* one child of w:body per step.                                           *)

\* the children a body is made of: section headers (one written with blanks
\* around it), a question start, a question start whose text holds the words
\* of a free-response header, an underlined option line, a table whose text
\* reads as a header, a plain paragraph, a w:sectPr
BodyKinds ==
    { [nodeName |-> "w:p", textContent |-> <<"sp">> \o LabelI \o <<"sp">>,
       node |-> ExtraNode(1)],
      [nodeName |-> "w:p", textContent |-> LabelIV, node |-> ExtraNode(1)],
      [nodeName |-> "w:p", textContent |-> <<"Q", "sp", "w">>,
       node |-> StemNode(FALSE, 40, "-")],
      [nodeName |-> "w:p", textContent |-> <<"sp", "Q", "sp", "TU", "sp", "LUAN">>,
       node |-> StemNode(FALSE, 40, "-")],
      [nodeName |-> "w:p", textContent |-> <<"w">>,
       node |-> OptionNode(FALSE, 1, ".", TRUE, 8)],
      [nodeName |-> "w:tbl", textContent |-> LabelI, node |-> ExtraNode(1)],
      [nodeName |-> "w:p", textContent |-> <<"w">>, node |-> ExtraNode(1)],
      [nodeName |-> "w:sectPr", textContent |-> <<>>, node |-> ExtraNode(1)] }

WithId(kind, i) ==
    [id |-> i, nodeName |-> kind.nodeName, textContent |-> kind.textContent,
     node |-> kind.node]

\* the bodies of n children
Bodies(n) == { [i \in 1..n |-> WithId(ks[i], i)] : ks \in [1..n -> BodyKinds] }

SegmentCalled ==
    /\ spc = "parsed"
    /\ \E n \in 0..MaxBody : sBody \in Bodies(n)
    /\ childNodes = <<>> /\ si = 0 /\ seg = <<>> /\ finalSectPr = <<>>

\* lines 157-175 and 248
ExtractSectPr ==
    /\ spc = "parsed"
    /\ LET r == extractSectPr(sBody)
       IN /\ finalSectPr' = r.finalSectPr
          /\ childNodes' = r.childNodes
    /\ seg' = SegmenterStart
    /\ si' = 1
    /\ spc' = "loop"
    /\ UNCHANGED sBody
    /\ UNCHANGED <<keyVars, questionVars, genVars, cleanVars, appVars, stripVars, batchVars>>

\* one turn of the for loop
SegmentStep ==
    /\ spc = "loop"
    /\ si <= Len(childNodes)
    /\ seg' = segmentNode(seg, childNodes[si])
    /\ si' = si + 1
    /\ UNCHANGED <<spc, sBody, childNodes, finalSectPr>>
    /\ UNCHANGED <<keyVars, questionVars, genVars, cleanVars, appVars, stripVars, batchVars>>

\* line 275 and the return
SegmentReturn ==
    /\ spc = "loop"
    /\ si > Len(childNodes)
    /\ seg' = finishSegment(seg)
    /\ spc' = "done"
    /\ UNCHANGED <<sBody, childNodes, si, finalSectPr>>
    /\ UNCHANGED <<keyVars, questionVars, genVars, cleanVars, appVars, stripVars, batchVars>>

SegmentInit == SegmentCalled /\ KeysIdle /\ QuestionIdle /\ GenIdle /\ CleanIdle /\ AppIdle /\ StripIdle /\ BatchIdle
SegmentNext == ExtractSectPr \/ SegmentStep \/ SegmentReturn
SpecSegment == SegmentInit /\ [][SegmentNext]_vars

----------------------------------------------------------------------------
(* Specification SpecApp: the App component.  An async handler runs to its *)
(* await, leaves a promise in `pending`, and resumes when it settles.      *)

\* the packages: without word/document.xml, without w:body, one question
\* that has no options (an issue), one free-response question (no issue)
Files ==
    { [hasDocument |-> FALSE, hasBody |-> FALSE, children |-> <<>>],
      [hasDocument |-> TRUE, hasBody |-> FALSE, children |-> <<>>],
      [hasDocument |-> TRUE, hasBody |-> TRUE,
       children |-> <<WithId([nodeName |-> "w:p", textContent |-> <<"Q", "sp", "w">>,
                              node |-> StemNode(FALSE, 40, "-")], 1)>>],
      [hasDocument |-> TRUE, hasBody |-> TRUE,
       children |-> <<WithId([nodeName |-> "w:p", textContent |-> LabelIV,
                              node |-> ExtraNode(1)], 1),
                      WithId([nodeName |-> "w:p", textContent |-> <<"Q", "sp", "w">>,
                              node |-> StemNode(FALSE, 40, "-")], 2)>>] }

DefaultStartCode == 101
DefaultVariantCount == 4

NoApiKeyNote == "Chua cau hinh API_KEY. Bo qua buoc kiem tra noi dung bang AI."
ShuffleError == "Loi khi tron de: "

\* the text checkContentWithGemini resolves to: a comment on these questions
\* (or a note on the failure of the request)
checkContentWithGemini(questions) == <<"analysis", questions>>

\* the useState initial values; aiAnalysis is <<>> (null), a one-element
\* tuple (the note on the missing key) or the reviewer's text
AppMounted ==
    /\ apiKey \in BOOLEAN
    /\ nextCode = 0
    /\ app = [isProcessing |-> FALSE, docData |-> <<>>, issues |-> <<>>,
              aiAnalysis |-> <<>>, step |-> "upload", errorMsg |-> "",
              startCode |-> DefaultStartCode, variantCount |-> DefaultVariantCount]
    /\ pending = <<>>

RemoveAt(s, k) == SubSeq(s, 1, k - 1) \o SubSeq(s, k + 1, Len(s))

\* handleFileSelect up to its await
handleFileSelect(file) ==
    /\ Len(pending) < MaxPending
    /\ app' = [app EXCEPT !.isProcessing = TRUE, !.errorMsg = "", !.aiAnalysis = <<>>]
    /\ pending' = Append(pending, [kind |-> "file", file |-> file])
    /\ UNCHANGED <<apiKey, nextCode>>
    /\ UNCHANGED <<keyVars, questionVars, genVars, cleanVars, segmentVars, stripVars, batchVars>>

\* FileUpload: a file chosen in the dialog; the dialog does not open and the
\* input is disabled while isProcessing
FileChosen ==
    /\ app.step = "upload"
    /\ ~app.isProcessing
    /\ \E file \in Files : handleFileSelect(file)

\* FileUpload: a file dropped on the upload area
FileDropped ==
    /\ app.step = "upload"
    /\ \E file \in Files : handleFileSelect(file)

\* handleFileSelect after processDocxFile resolved
FileProcessed ==
    \E k \in DOMAIN pending :
        /\ pending[k].kind = "file"
        /\ LET processed == processDocxFile(pending[k].file)
           IN /\ processed.error = ""
              /\ app' = [app EXCEPT !.docData = processed.doc,
                                    !.issues = getValidationIssues(processed.doc.questions),
                                    !.step = "validate",
                                    !.aiAnalysis = IF apiKey THEN @ ELSE <<NoApiKeyNote>>,
                                    !.isProcessing = FALSE]
              /\ pending' = IF apiKey
                            THEN Append(RemoveAt(pending, k),
                                        [kind |-> "ai", file |-> pending[k].file,
                                         questions |-> processed.doc.questions])
                            ELSE RemoveAt(pending, k)
        /\ UNCHANGED <<apiKey, nextCode>>
        /\ UNCHANGED <<keyVars, questionVars, genVars, cleanVars, segmentVars, stripVars, batchVars>>

\* handleFileSelect after processDocxFile rejected
FileRejectedAt(k) ==
    /\ pending[k].kind = "file"
    /\ LET processed == processDocxFile(pending[k].file)
       IN /\ processed.error # ""
          /\ app' = [app EXCEPT !.errorMsg = processed.error,
                                !.step = "upload",
                                !.isProcessing = FALSE]
    /\ pending' = RemoveAt(pending, k)
    /\ UNCHANGED <<apiKey, nextCode>>
    /\ UNCHANGED <<keyVars, questionVars, genVars, cleanVars, segmentVars, stripVars, batchVars>>

FileRejected == \E k \in DOMAIN pending : FileRejectedAt(k)

\* checkContentWithGemini resolved
AiAnswered ==
    \E k \in DOMAIN pending :
        /\ pending[k].kind = "ai"
        /\ app' = [app EXCEPT !.aiAnalysis = checkContentWithGemini(pending[k].questions)]
        /\ pending' = RemoveAt(pending, k)
        /\ UNCHANGED <<apiKey, nextCode>>
        /\ UNCHANGED <<keyVars, questionVars, genVars, cleanVars, segmentVars, stripVars, batchVars>>

\* checkContentWithGemini rejected: console.error
AiFailed ==
    \E k \in DOMAIN pending :
        /\ pending[k].kind = "ai"
        /\ pending' = RemoveAt(pending, k)
        /\ UNCHANGED <<app, apiKey, nextCode>>
        /\ UNCHANGED <<keyVars, questionVars, genVars, cleanVars, segmentVars, stripVars, batchVars>>

\* handleShuffle up to its await (the button is disabled while isProcessing;
\* a declined confirmation returns without a change)
ShuffleStarted ==
    /\ app.step = "validate" /\ app.docData # <<>>
    /\ ~app.isProcessing
    /\ Len(pending) < MaxPending
    /\ app.startCode < DefaultStartCode + MaxBatches * DefaultVariantCount
    /\ app' = [app EXCEPT !.isProcessing = TRUE]
    /\ pending' = Append(pending, [kind |-> "shuffle", file |-> <<>>,
                                   startCode |-> app.startCode,
                                   variantCount |-> app.variantCount])
    /\ UNCHANGED <<apiKey, nextCode>>
    /\ UNCHANGED <<keyVars, questionVars, genVars, cleanVars, segmentVars, stripVars, batchVars>>

\* handleShuffle after generateVariants resolved; startCode and variantCount
\* are those of the render that started the call
ShuffleDone ==
    \E k \in DOMAIN pending :
        /\ pending[k].kind = "shuffle"
        /\ app' = [app EXCEPT !.startCode = pending[k].startCode + pending[k].variantCount,
                              !.step = "success",
                              !.isProcessing = FALSE]
        /\ nextCode' = pending[k].startCode + pending[k].variantCount
        /\ pending' = RemoveAt(pending, k)
        /\ UNCHANGED apiKey
        /\ UNCHANGED <<keyVars, questionVars, genVars, cleanVars, segmentVars, stripVars, batchVars>>

\* handleShuffle after generateVariants rejected
ShuffleFailed ==
    \E k \in DOMAIN pending :
        /\ pending[k].kind = "shuffle"
        /\ app' = [app EXCEPT !.errorMsg = ShuffleError, !.isProcessing = FALSE]
        /\ pending' = RemoveAt(pending, k)
        /\ UNCHANGED <<apiKey, nextCode>>
        /\ UNCHANGED <<keyVars, questionVars, genVars, cleanVars, segmentVars, stripVars, batchVars>>

\* reset: the buttons of the validation report and of the success step
Reset ==
    /\ \/ app.step = "validate" /\ app.docData # <<>>
       \/ app.step = "success"
    /\ app' = [app EXCEPT !.docData = <<>>, !.issues = <<>>, !.aiAnalysis = <<>>,
                          !.step = "upload", !.errorMsg = ""]
    /\ UNCHANGED <<pending, apiKey, nextCode>>
    /\ UNCHANGED <<keyVars, questionVars, genVars, cleanVars, segmentVars, stripVars, batchVars>>

\* the close button of the error notification
CloseError ==
    /\ app.errorMsg # ""
    /\ app' = [app EXCEPT !.errorMsg = ""]
    /\ UNCHANGED <<pending, apiKey, nextCode>>
    /\ UNCHANGED <<keyVars, questionVars, genVars, cleanVars, segmentVars, stripVars, batchVars>>

AppInit == AppMounted /\ KeysIdle /\ QuestionIdle /\ GenIdle /\ CleanIdle /\ SegmentIdle /\ StripIdle /\ BatchIdle
AppNext ==
    \/ FileChosen \/ FileDropped \/ FileProcessed \/ FileRejected
    \/ AiAnswered \/ AiFailed
    \/ ShuffleStarted \/ ShuffleDone \/ ShuffleFailed
    \/ Reset \/ CloseError
SpecApp == AppInit /\ [][AppNext]_vars

----------------------------------------------------------------------------
(* Specification SpecGen: one call of generateVariants on a processed      *)
(* document.  The call runs to its first await (setupFooterFiles), then    *)
(* once round the loop per variant, pausing at zip.generateAsync.          *)

\* the question kinds of the documents: an MCQ of a stem and 4 options, an
\* MCQ of a short stem and 3 short options, a true/false question, a short
\* answer, a question without options, a short answer whose label "Câu 7."
\* is written over two runs
DocKinds ==
    { BuildNodes(4, FALSE, ".", {2}, FALSE, 0, 40, 8),
      BuildNodes(3, FALSE, ".", {1}, FALSE, 0, 8, 8),
      BuildNodes(2, TRUE, ")", {2}, FALSE, 0, 40, 8),
      <<StemNode(FALSE, 40, "5")>>,
      <<StemNode(FALSE, 40, "-")>>,
      <<[StemNode(FALSE, 40, "5") EXCEPT !.pieces[1].split = TRUE]>> }

\* "" is the label of the questions before the first section header only
LabelsInOrder(labels) ==
    \A i \in DOMAIN labels : labels[i] = <<>> => \A j \in 1..i : labels[j] = <<>>

\* documents of short-answer questions under every sequence of section labels
LabelledDocuments ==
    UNION { { [i \in 1..n |-> finishCurrentSegment(<<StemNode(FALSE, 40, "5")>>, ls[i])] :
                ls \in { l \in [1..n -> SectionLabels] : LabelsInOrder(l) } } :
            n \in 0..MaxQuestions }

\* documents of short-answer questions all in Part I
PlainDocuments ==
    { [i \in 1..n |-> finishCurrentSegment(<<StemNode(FALSE, 40, "5")>>, LabelI)] :
        n \in 0..MaxQuestions }

\* documents of a question of any kind followed by a 4-option MCQ, in Part I
MixedDocuments ==
    { << finishCurrentSegment(k, LabelI),
         finishCurrentSegment(BuildNodes(4, FALSE, ".", {2}, FALSE, 0, 40, 8), LabelI) >> :
        k \in DocKinds }

\* the kinds of the documents that vary the order of the types: a question
\* without options, a short answer, a true/false question
OrderKinds ==
    { <<StemNode(FALSE, 40, "-")>>,
      <<StemNode(FALSE, 40, "5")>>,
      BuildNodes(2, TRUE, ")", {2}, FALSE, 0, 40, 8) }

\* documents of MaxQuestions questions of these kinds, all in Part I or all
\* in Part IV
OrderDocuments ==
    { [i \in 1..MaxQuestions |-> finishCurrentSegment(ks[i], l)] :
        ks \in [1..MaxQuestions -> OrderKinds], l \in {LabelI, LabelIV} }

\* The package (docData.zip).  [Content_Types].xml is the list of the part
\* names of its Override elements, word/_rels/document.xml.rels the list of
\* its Relationship elements (Id, Target; Id "" when the attribute is
\* missing); `closed` tells whether the text of the file holds the closing
\* tag of its root element (it does not when the root is written <Types/>).
\* footer is the text of word/footer1.xml, <<>> when the part is absent.
FooterPart == "/word/footer1.xml"
NoFile == [present |-> FALSE, entries |-> <<>>, closed |-> FALSE]
XmlFile(entries, closed) == [present |-> TRUE, entries |-> entries, closed |-> closed]

PlainPackage ==
    [footer |-> <<>>, contentTypes |-> XmlFile(<<"/word/document.xml">>, TRUE),
     rels |-> XmlFile(<<>>, TRUE), document |-> <<>>]

FooterRelationships(rels) ==
    { x \in DOMAIN rels.entries :
        rels.entries[x].Target \in {"footer1.xml", "/word/footer1.xml"} }

\* the override and the relationship added without looking for existing ones
setupFooterFilesAlwaysAdd(z) ==
    LET ct == z.contentTypes
        rels == z.rels
    IN [zip |-> [z EXCEPT
                   !.contentTypes = IF ct.present /\ ct.closed
                                    THEN [ct EXCEPT !.entries = Append(@, FooterPart)]
                                    ELSE ct,
                   !.rels = IF rels.present /\ rels.closed
                            THEN [rels EXCEPT !.entries =
                                    Append(@, [Id |-> "rIdFooterGen1", Target |-> "footer1.xml"])]
                            ELSE rels],
        footerRid |-> IF rels.present THEN "rIdFooterGen1" ELSE "rIdFooter1"]

setupFooterFiles(z) ==
    LET ct == z.contentTypes
        rels == z.rels
        found == FooterRelationships(rels)
        first == CHOOSE x \in found : \A y \in found : x <= y
    IN [zip |-> [z EXCEPT
                   !.contentTypes =
                       IF /\ ct.present
                          /\ \A x \in DOMAIN ct.entries : ct.entries[x] # FooterPart
                          /\ ct.closed
                       THEN [ct EXCEPT !.entries = Append(@, FooterPart)]
                       ELSE ct,
                   !.rels =
                       IF rels.present /\ found = {} /\ rels.closed
                       THEN [rels EXCEPT !.entries =
                               Append(@, [Id |-> "rIdFooterGen1", Target |-> "footer1.xml"])]
                       ELSE rels],
        footerRid |->
            IF ~rels.present THEN "rIdFooter1"
            ELSE IF found = {} THEN "rIdFooterGen1"
            ELSE IF rels.entries[first].Id # "" THEN rels.entries[first].Id
            ELSE "rIdFooter1"]

StartCodes == {9, 101}

\* the calls: every section labelling and every mix option with the header
\* off, every packaging option on the plain documents, both values of
\* shuffleQuestions on the documents that vary the order of the types
GenCalled ==
    \E questions \in LabelledDocuments \cup PlainDocuments \cup MixedDocuments
                        \cup OrderDocuments,
       codeLabel \in BOOLEAN, count \in 0..MaxCount, startCode \in StartCodes,
       enabled \in BOOLEAN, sq \in BOOLEAN, so \in BOOLEAN :
        /\ \/ questions \in PlainDocuments /\ ~sq /\ so
           \/ /\ questions \in LabelledDocuments
              /\ ~sq /\ so /\ ~codeLabel /\ startCode = 9 /\ ~enabled
           \/ /\ questions \in MixedDocuments
              /\ ~codeLabel /\ startCode = 9 /\ ~enabled
           \/ /\ questions \in OrderDocuments
              /\ ~so /\ ~codeLabel /\ startCode = 9 /\ ~enabled
        /\ gpc = "setup"
        /\ docData = [questions |-> questions, codeLabel |-> codeLabel]
        /\ gArgs = [count |-> count, startCode |-> startCode, enabled |-> enabled,
                    mixOptions |-> [shuffleQuestions |-> sq, shuffleOptions |-> so]]
        /\ zip = PlainPackage
        /\ gi = 0
        /\ cur = <<>>
        /\ allVariantAnswers = <<>>
        /\ masterZip = <<>>
        /\ matrix = <<>>

\* setupFooterFiles: the content-type override and the relationship for
\* word/footer1.xml, each created when absent; yields the package and the
\* relationship id.  (Defined with the package model, above GenCalled.)

\* up to the loop: the footer parts are set up when header generation is on
GenSetup ==
    /\ gpc = "setup"
    /\ zip' = IF gArgs.enabled THEN setupFooterFiles(zip).zip ELSE zip
    /\ gi' = 1
    /\ gpc' = "top"
    /\ UNCHANGED <<docData, gArgs, cur, allVariantAnswers, masterZip, matrix>>
    /\ UNCHANGED <<keyVars, questionVars, cleanVars, segmentVars, appVars, stripVars, batchVars>>

variantCodeOf(startCode, i) == toString(startCode + i - 1)

\* the footer part written only while the package has none
WriteFooterOnce(z, examCode) == IF z.footer = <<>> THEN [z EXCEPT !.footer = examCode] ELSE z

\* zip.file("word/footer1.xml", createFooterXml(footerText, variantCode))
WriteFooter(z, examCode) == [z EXCEPT !.footer = examCode]

\* loop head to the first section: fresh body, header table and footer part, or preamble
IterationStart ==
    /\ gpc = "top"
    /\ gi <= gArgs.count
    /\ LET variantCode == variantCodeOf(gArgs.startCode, gi)
       IN /\ cur' = [code |-> variantCode,
                     header |-> IF gArgs.enabled THEN variantCode ELSE <<>>,
                     preamble |-> ~gArgs.enabled,
                     body |-> <<>>,
                     answers |-> <<>>,
                     globalExcelStt |-> 1,
                     bucket |-> 1]
          /\ zip' = IF gArgs.enabled THEN WriteFooter(zip, variantCode) ELSE zip
    /\ gpc' = "sections"
    /\ UNCHANGED <<docData, gArgs, gi, allVariantAnswers, masterZip, matrix>>
    /\ UNCHANGED <<keyVars, questionVars, cleanVars, segmentVars, appVars, stripVars, batchVars>>

\* the answers of the appended questions written at their rows
RecordAnswers(answers, appended) ==
    [k \in (DOMAIN answers) \cup { appended[x].stt : x \in DOMAIN appended } |->
        IF \E x \in DOMAIN appended : appended[x].stt = k
        THEN appended[CHOOSE x \in DOMAIN appended : appended[x].stt = k].ans
        ELSE answers[k]]

\* processSectionGroup for the next section bucket (Part IV keeps its order)
RenderSection ==
    /\ gpc = "sections"
    /\ LET b == cur.bucket
           group == BucketQuestions(docData.questions, b)
       IN \E appended \in processSectionGroup(docData.questions, group, b = 4,
                                              gArgs.mixOptions, cur.globalExcelStt) :
            cur' = [cur EXCEPT !.body = @ \o [x \in DOMAIN appended |->
                                                [bucket |-> b, entry |-> appended[x]]],
                               !.answers = RecordAnswers(@, appended),
                               !.globalExcelStt = @ + Len(appended),
                               !.bucket = b + 1]
    /\ gpc' = IF cur.bucket = 5 THEN "finish" ELSE "sections"
    /\ UNCHANGED <<docData, gArgs, zip, gi, allVariantAnswers, masterZip, matrix>>
    /\ UNCHANGED <<keyVars, questionVars, cleanVars, segmentVars, appVars, stripVars, batchVars>>

\* closing line, page setup with the footer reference, updateExamCode,
\* serialization into word/document.xml, and the call of zip.generateAsync
FinishBody ==
    /\ gpc = "finish"
    /\ zip' = [zip EXCEPT !.document =
                  [header |-> cur.header,
                   codeLabel |-> IF cur.preamble /\ docData.codeLabel THEN cur.code ELSE <<>>,
                   footerReference |-> gArgs.enabled,
                   body |-> cur.body]]
    /\ gpc' = "sealing"
    /\ UNCHANGED <<docData, gArgs, gi, cur, allVariantAnswers, masterZip, matrix>>
    /\ UNCHANGED <<keyVars, questionVars, cleanVars, segmentVars, appVars, stripVars, batchVars>>

\* the await returns: the package as it stands is the variant's file
SealVariant ==
    /\ gpc = "sealing"
    /\ masterZip' = Append(masterZip, [name |-> cur.code, document |-> zip.document,
                                       footer |-> zip.footer])
    /\ allVariantAnswers' = Append(allVariantAnswers,
                                   [code |-> cur.code, answers |-> cur.answers])
    /\ gi' = gi + 1
    /\ gpc' = "top"
    /\ UNCHANGED <<docData, gArgs, zip, cur, matrix>>
    /\ UNCHANGED <<keyVars, questionVars, cleanVars, segmentVars, appVars, stripVars, batchVars>>

\* variant.answers[qIdx] || ""
CellOf(answers, qIdx) == IF qIdx \in DOMAIN answers THEN answers[qIdx] ELSE <<>>

sortVariantCodes(codes) == SortCodes(codes)

\* the answer table, after the loop
BuildMatrix ==
    /\ gpc = "top"
    /\ gi > gArgs.count
    /\ LET totalQuestions == Len(docData.questions)
           variantCodes == sortVariantCodes({ allVariantAnswers[v].code :
                                                v \in DOMAIN allVariantAnswers })
           variant(code) ==
               allVariantAnswers[CHOOSE v \in DOMAIN allVariantAnswers :
                   /\ allVariantAnswers[v].code = code
                   /\ \A w \in DOMAIN allVariantAnswers :
                         allVariantAnswers[w].code = code => v <= w]
       IN matrix' = [header |-> variantCodes,
                     rows |-> [qIdx \in 1..totalQuestions |->
                                 [c \in DOMAIN variantCodes |->
                                     CellOf(variant(variantCodes[c]).answers, qIdx)]]]
    /\ gpc' = "done"
    /\ UNCHANGED <<docData, gArgs, zip, gi, cur, allVariantAnswers, masterZip>>
    /\ UNCHANGED <<keyVars, questionVars, cleanVars, segmentVars, appVars, stripVars, batchVars>>

GenInit == GenCalled /\ KeysIdle /\ QuestionIdle /\ CleanIdle /\ SegmentIdle /\ AppIdle /\ StripIdle /\ BatchIdle
GenNext ==
    GenSetup \/ IterationStart \/ RenderSection \/ FinishBody \/ SealVariant \/ BuildMatrix
SpecGen == GenInit /\ [][GenNext]_vars

----------------------------------------------------------------------------
\* C7: generateBalancedKeys(n) returns exactly n letters of {A,B,C,D}, each
\* letter occurring floor(n/4) or floor(n/4)+1 times, for every random outcome.
C7_BalancedKeys ==
    kpc = "done" =>
        /\ Len(keys) = kn
        /\ Range(keys) \subseteq {"A", "B", "C", "D"}
        /\ \A l \in {"A", "B", "C", "D"} :
              Count(keys, l) \in { kn \div 4, kn \div 4 + 1 }
        /\ \A l, m \in {"A", "B", "C", "D"} :
              Count(keys, l) - Count(keys, m) \in {-1, 0, 1}

\* a call with a remainder (n = 6: two letters twice, two letters once)
C7_Witness ==
    kpc = "done" /\ kn = 6 /\ Count(keys, "A") = 2 /\ Count(keys, "D") = 1

----------------------------------------------------------------------------
(* Properties of one question (SpecQuestion) *)

OptionSlots(nodes) == { i \in DOMAIN nodes : IsOptionNode(nodes[i]) }

StrictSlots(nodes) == { i \in DOMAIN nodes : OPTION_PREFIX_REGEX(nodes[i]) }

UnderlinedOptions(nodes) == { i \in OptionSlots(nodes) : hasUnderline(nodes[i]) }

\* an option node without its label prefix (letter, blanks, separator)
Content(node) ==
    [node EXCEPT !.pieces[1].letter = "-", !.pieces[1].sep = "-", !.pieces[1].gap = FALSE]

CountContent(nodes, c) ==
    Cardinality({ i \in OptionSlots(nodes) : Content(nodes[i]) = c })

OneLetter(ans) == Len(ans) = 1 /\ ans[1] \in UpperLetters

\* C1: a valid MCQ resolves to exactly one letter of A-D and has exactly one
\* underlined option node, before and after shuffleQuestionOptions.
C1_ValidMcqOneCorrectOption ==
    (qpc \in {"resolvedSource", "shuffled", "resolved"}
       /\ qBlock.type = "MCQ" /\ qBlock.isValid) =>
        /\ Cardinality(UnderlinedOptions(qBlock.xmlContent)) = 1
        /\ qpc = "shuffled" => Cardinality(UnderlinedOptions(qOut)) = 1
        /\ qpc \in {"resolvedSource", "resolved"} => OneLetter(qAns)

\* C3: shuffleQuestionOptions returns as many nodes as it was given; the nodes
\* that are no options stay in place, the option nodes fill the same slots and
\* their contents, label prefix aside, form the same multiset as before.
C3_ShuffleKeepsContent ==
    qpc = "shuffled" =>
        LET src == qBlock.xmlContent
        IN /\ Len(qOut) = Len(src)
           /\ \A i \in DOMAIN src : ~IsOptionNode(src[i]) => qOut[i] = src[i]
           /\ OptionSlots(qOut) = OptionSlots(src)
           /\ \A i \in OptionSlots(src) :
                 CountContent(qOut, Content(src[i])) = CountContent(src, Content(src[i]))

\* a target-pinned MCQ shuffle and a free TRUE_FALSE shuffle that moved content
C3_Witness ==
    /\ qpc = "shuffled"
    /\ Cardinality(OptionSlots(qBlock.xmlContent)) >= 3
    /\ \E i \in OptionSlots(qBlock.xmlContent) :
          Content(qOut[i]) # Content(qBlock.xmlContent[i])
    /\ qBlock.type = "MCQ" /\ qArgs.targetLabel = "C"
    /\ UnderlinedOptions(qBlock.xmlContent) # {}

\* the piece of the emitted nodes that holds the content `body` of an option
Holders(nodes, body) ==
    { ij \in UNION { {<<i, j>> : j \in DOMAIN nodes[i].pieces} : i \in DOMAIN nodes } :
        LET p == nodes[ij[1]].pieces[ij[2]]
        IN p.k \in {"opt", "loose"} /\ p.body = body }

\* questions written the plain way: every option a paragraph "X<sep> text"
PlainOptions(nodes) ==
    \A i \in DOMAIN nodes :
        \/ nodes[i].pieces[1].k \in {"q", "plain"}
        \/ /\ nodes[i].pieces[1].k = "opt"
           /\ ~nodes[i].pieces[1].gap /\ ~nodes[i].pieces[1].split

\* C2: for an MCQ with at least 2 option paragraphs, exactly one underlined,
\* the answer recorded by appendQuestions is the label under which the content
\* of the underlined option is emitted.
C2_RecordedAnswerIsEmittedLabel ==
    (qpc = "appended" /\ qBlock.type = "MCQ"
       /\ PlainOptions(qBlock.xmlContent)
       /\ Cardinality(StrictSlots(qBlock.xmlContent)) >= 2
       /\ Cardinality(UnderlinedOptions(qBlock.xmlContent)) = 1) =>
        LET src == qBlock.xmlContent
            u == CHOOSE i \in UnderlinedOptions(src) : TRUE
            holders == Holders(qOut, src[u].pieces[1].body)
        IN /\ OneLetter(qAns)
           /\ \E ij \in holders :
                 toUpperCase(qOut[ij[1]].pieces[ij[2]].letter) = qAns[1]

\* C9: the layout reformat leaves an MCQ that does not have exactly 4 option
\* nodes as it is: no paragraph merged, no tab stop set, as many nodes as before.
C9_ReformatNoOpUnlessFourOptions ==
    (qpc = "appended" /\ qBlock.type = "MCQ"
       /\ Cardinality(OptionSlots(qBlock.xmlContent)) # 4) =>
        /\ Len(qOut) = Len(qBlock.xmlContent)
        /\ \A i \in DOMAIN qOut : Len(qOut[i].pieces) = 1 /\ qOut[i].tabs = <<>>

----------------------------------------------------------------------------
(* Properties of a batch (SpecGen) *)

\* the entries of a sealed variant's body that render question qi
Renderings(pkg, qi) ==
    { x \in DOMAIN pkg.document.body : pkg.document.body[x].entry.q = qi }

\* C4: in every variant every question of the source is rendered exactly once
\* (the section buckets partition the questions), so the variant's answer map
\* has exactly the keys 1..totalQuestions.
C4_EveryQuestionRenderedOnce ==
    \A v \in DOMAIN masterZip :
        /\ \A qi \in DOMAIN docData.questions :
              /\ Cardinality({ b \in 1..5 : InBucket(b, docData.questions[qi].section) }) = 1
              /\ Cardinality(Renderings(masterZip[v], qi)) = 1
        /\ DOMAIN allVariantAnswers[v].answers = 1..Len(docData.questions)

\* C5: variants are produced strictly in turn: while variant i is under
\* construction or being sealed exactly the variants 1..i-1 are sealed, the
\* shared footer part carries the code of variant i only after that, and every
\* sealed package carries its own code (never another variant's) in its
\* header, its footer part and its body.
C5_SealedVariantsCarryOwnCode ==
    gpc \in {"top", "sections", "finish", "sealing", "done"} =>
        /\ Len(masterZip) = gi - 1
        /\ gpc \in {"sections", "finish", "sealing"} =>
              /\ cur.code = variantCodeOf(gArgs.startCode, gi)
              /\ gArgs.enabled => zip.footer = cur.code
        /\ \A v \in DOMAIN masterZip :
              LET pkg == masterZip[v]
                  own == variantCodeOf(gArgs.startCode, v)
              IN /\ pkg.name = own
                 /\ gArgs.enabled => (pkg.footer = own /\ pkg.document.header = own)
                 /\ pkg.footer \in {<<>>, own}
                 /\ pkg.document.header \in {<<>>, own}
                 /\ pkg.document.codeLabel \in {<<>>, own}
                 /\ (docData.codeLabel /\ ~gArgs.enabled) => pkg.document.codeLabel = own

\* two variants sealed with header generation on, each with its own footer
C5_Witness ==
    /\ gpc = "done" /\ gArgs.enabled /\ Len(masterZip) = 2
    /\ masterZip[1].footer = <<9>> /\ masterZip[2].footer = <<1, 0>>

\* the answer a sealed variant recorded at row `row` of the answer map
RecordedAt(pkg, row) ==
    LET hits == { x \in DOMAIN pkg.document.body : pkg.document.body[x].entry.stt = row }
    IN IF hits = {} THEN <<>>
       ELSE pkg.document.body[CHOOSE x \in hits : TRUE].entry.ans

\* C6: count variants with the codes startCode, startCode+1, ... in that order;
\* the answer table has one column per variant in ascending numeric order of
\* the codes and one row per index 1..totalQuestions, and each cell holds the
\* answer the variant recorded at that index (empty where it recorded none).
C6_CodesAndMatrix ==
    gpc = "done" =>
        /\ Len(masterZip) = gArgs.count
        /\ \A v \in DOMAIN masterZip :
              /\ Number(masterZip[v].name) = gArgs.startCode + v - 1
              /\ allVariantAnswers[v].code = masterZip[v].name
        /\ Len(matrix.header) = gArgs.count
        /\ \A c \in DOMAIN matrix.header :
              Number(matrix.header[c]) = gArgs.startCode + c - 1
        /\ DOMAIN matrix.rows = 1..Len(docData.questions)
        /\ \A row \in DOMAIN matrix.rows :
              /\ DOMAIN matrix.rows[row] = DOMAIN matrix.header
              /\ \A c \in DOMAIN matrix.header :
                    matrix.rows[row][c] = RecordedAt(masterZip[c], row)

\* codes 9 and 10 (numeric order differs from text order), a filled cell
C6_Witness ==
    /\ gpc = "done" /\ gArgs.count = 2 /\ gArgs.startCode = 9
    /\ Len(docData.questions) = 2
    /\ matrix.rows[2][2] # <<>>

\* an MCQ of a stem and exactly 4 option paragraphs "X. text", one underlined
FourOptionMcq(qb) ==
    /\ qb.type = "MCQ"
    /\ PlainOptions(qb.xmlContent)
    /\ Cardinality(OptionSlots(qb.xmlContent)) = 4
    /\ Cardinality(UnderlinedOptions(qb.xmlContent)) = 1
    /\ Len(qb.xmlContent) >= 5

\* number of variants of the batch that recorded `letter` for question qi
VariantsAnswering(qi, letter) ==
    Cardinality({ v \in DOMAIN masterZip :
                    \E x \in Renderings(masterZip[v], qi) :
                        masterZip[v].document.body[x].entry.ans = <<letter>> })

TargetsIn(pkg, b, letter) ==
    Cardinality({ x \in DOMAIN pkg.document.body :
                    /\ pkg.document.body[x].bucket = b
                    /\ pkg.document.body[x].entry.target = letter })

----------------------------------------------------------------------------
(* Key-tag removal from one paragraph (SpecClean).  A paragraph is the
   sequence of the texts of its w:t fragments, a text a sequence of
   characters; offsets are 0-based and ranges half-open as in the source. *)

MaxFragments == 3

\* \s: a blank, or the line break that joins the paragraphs of a question
IsSpace(c) == c \in {" ", "\n"}

RECURSIVE SkipSpaces(_, _)
SkipSpaces(t, i) ==
    IF i <= Len(t) /\ IsSpace(t[i]) THEN SkipSpaces(t, i + 1) ELSE i

RECURSIVE FirstClose(_, _)
FirstClose(t, i) ==
    IF i > Len(t) THEN 0
    ELSE IF t[i] = ">" THEN i ELSE FirstClose(t, i + 1)

\* \s*<Key\s*=[^>]*> matched (case-insensitively) at character i of t:
\* the position of the closing ">" of the match, 0 when there is no match
KEY_TAG_REMOVE_PATTERN(t, i) ==
    LET a == SkipSpaces(t, i)
        b == SkipSpaces(t, a + 4)
    IN IF /\ a + 3 <= Len(t)
          /\ t[a] = "<"
          /\ t[a + 1] \in {"K", "k"}
          /\ t[a + 2] \in {"E", "e"}
          /\ t[a + 3] \in {"Y", "y"}
          /\ b <= Len(t)
          /\ t[b] = "="
       THEN FirstClose(t, b + 1)
       ELSE 0

\* the regex.exec loop: successive leftmost matches from lastIndex on
RECURSIVE rangesToRemove(_, _)
rangesToRemove(fullText, lastIndex) ==
    LET hits == { i \in (lastIndex + 1)..Len(fullText) :
                    KEY_TAG_REMOVE_PATTERN(fullText, i) # 0 }
    IN IF hits = {} THEN <<>>
       ELSE LET i == CHOOSE h \in hits : \A g \in hits : h <= g
                e == KEY_TAG_REMOVE_PATTERN(fullText, i)
            IN <<[start |-> i - 1, end |-> e]>> \o rangesToRemove(fullText, e)

\* collect: the non-empty fragments with their offsets in the joined text
RECURSIVE collect(_, _, _)
collect(fragments, f, currentPos) ==
    IF f > Len(fragments) THEN <<>>
    ELSE IF fragments[f] # <<>>
         THEN <<[node |-> f, text |-> fragments[f], start |-> currentPos,
                 end |-> currentPos + Len(fragments[f])]>>
              \o collect(fragments, f + 1, currentPos + Len(fragments[f]))
         ELSE collect(fragments, f + 1, currentPos)

RECURSIVE joinTexts(_)
joinTexts(textNodes) ==
    IF textNodes = <<>> THEN <<>>
    ELSE Head(textNodes).text \o joinTexts(Tail(textNodes))

substring(t, from, to) == SubSeq(t, from + 1, to)

\* the rebuilding loop over the ranges that overlap one fragment
RECURSIVE rebuild(_, _, _, _, _)
rebuild(tNode, nodeRanges, k, builtText, lastKeptIndex) ==
    IF k > Len(nodeRanges)
    THEN IF lastKeptIndex < Len(tNode.text)
         THEN builtText \o substring(tNode.text, lastKeptIndex, Len(tNode.text))
         ELSE builtText
    ELSE LET r == nodeRanges[k]
             rStartLocal == Max2(0, r.start - tNode.start)
             rEndLocal == Min2(Len(tNode.text), r.end - tNode.start)
         IN rebuild(tNode, nodeRanges, k + 1,
                    IF rStartLocal > lastKeptIndex
                    THEN builtText \o substring(tNode.text, lastKeptIndex, rStartLocal)
                    ELSE builtText,
                    Max2(lastKeptIndex, rEndLocal))

updateNode(tNode, ranges) ==
    LET Overlaps(r) == r.start < tNode.end /\ r.end > tNode.start
        nodeRanges == SelectSeq(ranges, Overlaps)
    IN IF nodeRanges = <<>> THEN tNode.text
       ELSE rebuild(tNode, nodeRanges, 1, <<>>, 0)

\* the pattern applied to each fragment's text on its own
cleanKeyTagPerNode(fragments) ==
    [f \in DOMAIN fragments |->
        IF fragments[f] = <<>> THEN <<>>
        ELSE LET tNode == [node |-> f, text |-> fragments[f], start |-> 0,
                           end |-> Len(fragments[f])]
             IN updateNode(tNode, rangesToRemove(fragments[f], 0))]

cleanKeyTagFromParagraph(fragments) ==
    LET textNodes == collect(fragments, 1, 0)
        fullText == joinTexts(textNodes)
        ranges == rangesToRemove(fullText, 0)
    IN IF textNodes = <<>> \/ ranges = <<>> THEN fragments
       ELSE [f \in DOMAIN fragments |->
                IF \E x \in DOMAIN textNodes : textNodes[x].node = f
                THEN updateNode(textNodes[CHOOSE x \in DOMAIN textNodes :
                                              textNodes[x].node = f], ranges)
                ELSE fragments[f]]

\* texts a w:t fragment of a stem can hold: plain text, whole markers,
\* pieces of a marker cut by a run boundary, an empty fragment
FragmentTexts ==
    { <<>>,
      <<"x">>,
      <<" ">>,
      <<"x", " ">>,
      <<"<", "K", "e", "y", "=", "5", ">">>,
      <<"<", "k", "e", "y", " ", "=", ">">>,
      <<"<", "K">>,
      <<"e", "y", "=">>,
      <<"5", ">">>,
      <<" ", "<", "K", "e", "y">>,
      <<"=", "5", ">", "x">>,
      <<">">>,
      <<"<">> }

Paragraphs == UNION { [1..n -> FragmentTexts] : n \in 0..MaxFragments }

CleanReady == cpc = "ready" /\ cIn \in Paragraphs /\ cOut = <<>>

CallCleanKeyTag ==
    /\ cpc = "ready"
    /\ cOut' = cleanKeyTagFromParagraph(cIn)
    /\ cpc' = "cleaned"
    /\ UNCHANGED cIn
    /\ UNCHANGED <<keyVars, questionVars, genVars, segmentVars, appVars, stripVars, batchVars>>

CleanInit == CleanReady /\ KeysIdle /\ QuestionIdle /\ GenIdle /\ SegmentIdle /\ AppIdle /\ StripIdle /\ BatchIdle

CleanNext == CallCleanKeyTag

SpecClean == CleanInit /\ [][CleanNext]_vars

----------------------------------------------------------------------------
(* Properties of key-tag removal (SpecClean) *)

RECURSIVE Joined(_)
Joined(fragments) ==
    IF fragments = <<>> THEN <<>> ELSE Head(fragments) \o Joined(Tail(fragments))

\* <<p, e>>: "<Key", blanks, "=", then no ">" before the ">" at e
MarkerSpans(t) ==
    { sp \in { p \in 1..Len(t) : t[p] = "<" } \X { e \in 1..Len(t) : t[e] = ">" } :
        /\ sp[1] + 3 <= Len(t)
        /\ t[sp[1]] = "<"
        /\ t[sp[1] + 1] \in {"K", "k"}
        /\ t[sp[1] + 2] = "e"
        /\ t[sp[1] + 3] = "y"
        /\ t[sp[2]] = ">"
        /\ \E q \in (sp[1] + 4)..(sp[2] - 1) :
              /\ t[q] = "="
              /\ \A j \in (sp[1] + 4)..(q - 1) : t[j] = " "
              /\ \A j \in (q + 1)..(sp[2] - 1) : t[j] # ">" }

\* the markers of a text: the spans that do not begin inside an earlier marker
KeyMarkers(t) ==
    CHOOSE S \in SUBSET MarkerSpans(t) :
        \A sp \in MarkerSpans(t) :
            sp \in S <=> ~ \E other \in S : other[1] < sp[1] /\ sp[1] <= other[2]

MarkerChars(t) ==
    LET ms == KeyMarkers(t)
    IN { j \in 1..Len(t) : \E sp \in ms : sp[1] <= j /\ j <= sp[2] }

\* blanks running up to the "<" of a marker
LeadingBlanks(t) ==
    LET ms == KeyMarkers(t)
    IN { w \in 1..Len(t) : \E sp \in ms :
           w < sp[1] /\ \A j \in w..(sp[1] - 1) : t[j] = " " }

\* fragment f without the characters whose position in the joined text is in gone
Kept(fragments, f, gone) ==
    LET offset == Len(Joined(SubSeq(fragments, 1, f - 1)))
        idxs == { j \in 1..Len(fragments[f]) : offset + j \notin gone }
    IN [k \in 1..Cardinality(idxs) |->
          fragments[f][CHOOSE j \in idxs : Cardinality({ i \in idxs : i <= j }) = k]]

\* C10 as stated: the call deletes every marker <Key=...>, also one spread
\* over several fragments, and every character outside the markers stays in
\* its fragment, in order.
C10_OnlyMarkersDeleted ==
    cpc = "cleaned" =>
        LET gone == MarkerChars(Joined(cIn))
        IN /\ Len(cOut) = Len(cIn)
           /\ \A f \in DOMAIN cIn : cOut[f] = Kept(cIn, f, gone)

\* C10 amended: the call deletes every marker <Key=...> together with the
\* blanks immediately before it, also when these are spread over several
\* fragments; every other character stays in its fragment, in order.
C10_MarkersAndLeadingBlanksDeleted ==
    cpc = "cleaned" =>
        LET gone == MarkerChars(Joined(cIn)) \cup LeadingBlanks(Joined(cIn))
        IN /\ Len(cOut) = Len(cIn)
           /\ \A f \in DOMAIN cIn : cOut[f] = Kept(cIn, f, gone)

\* a marker with a blank before it, cut between two fragments
C10_Witness ==
    /\ cpc = "cleaned"
    /\ cIn = << <<"x">>, <<" ", "<", "K", "e", "y">>, <<"=", "5", ">", "x">> >>
    /\ cOut = << <<"x">>, <<>>, <<"x">> >>

----------------------------------------------------------------------------
(* Properties of classification, validation and resolution (SpecQuestion) *)

\* the validity rule of each type
ValidityRule(qb) ==
    LET nodes == qb.xmlContent
    IN CASE qb.type = "MCQ" ->
               /\ Cardinality(StrictSlots(nodes)) >= 2
               /\ \E i \in StrictSlots(nodes) : hasUnderline(nodes[i])
         [] qb.type = "TRUE_FALSE" ->
               \E i \in StrictSlots(nodes) : hasUnderline(nodes[i])
         [] qb.type = "SHORT_ANSWER" -> KEY_REGEX_EXTRACT(nodes)
         [] qb.type = "ESSAY" -> textContentLength(nodes) >= EssayMinLength
         [] OTHER -> FALSE

\* C11: the isValid flag of a QuestionBlock equals the validity rule of its
\* type (MCQ: at least 2 option nodes and an underlined option; TRUE_FALSE: an
\* underlined sub-item; SHORT_ANSWER: a key marker; ESSAY: text of at least
\* the small threshold; UNKNOWN: never).
C11_ValidEqualsRule ==
    qpc # "idle" => (qBlock.isValid <=> ValidityRule(qBlock))

\* the nodes matching the option pattern, in node order
StrictOptions(nodes) == SelectSeq(nodes, OPTION_PREFIX_REGEX)

C14_ShortAnswerKeyIssue ==
    (qpc = "validated" /\ qBlock.type = "SHORT_ANSWER") =>
        IF qBlock.hasKeyTag THEN qIssues = <<>>
        ELSE /\ Len(qIssues) = 1
             /\ qIssues[1].severity = "error"
             /\ qIssues[1].issue = "missingKeyTag"
             /\ qIssues[1].questionIndex = 0
             /\ qIssues[1].questionType = "SHORT_ANSWER"

\* a short-answer question without key marker, validated
C14_Witness ==
    /\ qpc = "validated" /\ qBlock.type = "SHORT_ANSWER" /\ ~qBlock.hasKeyTag
    /\ Len(qIssues) = 1

\* the validity rules of a question that fail, by the message of their issue
FailingRules(q) ==
    CASE q.type = "MCQ" ->
            {m \in {"optionsNotOnOwnLines"} : q.detectedOptionNodes < 2}
            \cup {m \in {"noUnderlinedAnswer"} : ~q.hasUnderline}
      [] q.type = "TRUE_FALSE" -> {m \in {"noUnderlinedItem"} : ~q.hasUnderline}
      [] q.type = "SHORT_ANSWER" -> {m \in {"missingKeyTag"} : ~q.hasKeyTag}
      [] q.type = "ESSAY" ->
            {m \in {"essayTooShort"} : textContentLength(q.xmlContent) < EssayMinLength}
      [] OTHER -> {"unknownType"}

OneIssuePerFailingRule ==
    /\ Len(qIssues) = Cardinality(FailingRules(qBlock))
    /\ {qIssues[x].issue : x \in DOMAIN qIssues} = FailingRules(qBlock)
    /\ \A x \in DOMAIN qIssues :
          qIssues[x].questionIndex = 0 /\ qIssues[x].questionType = qBlock.type

\* C22 (as stated): getValidationIssues reports exactly one issue for each
\* failing validity rule of the question and none when no rule fails; every
\* issue is an error except the one of a TRUE_FALSE question without an
\* underlined sub-item, which is a warning.
C22_OnlyTrueFalseWarns ==
    qpc = "validated" =>
        /\ OneIssuePerFailingRule
        /\ \A x \in DOMAIN qIssues :
              qIssues[x].severity =
                 IF qIssues[x].issue = "noUnderlinedItem" THEN "warning" ELSE "error"

\* C22 (amended): one issue for each failing rule and none when no rule
\* fails; the issue of a TRUE_FALSE question without an underlined sub-item
\* and the issue of an ESSAY question with too short a text are warnings,
\* every other issue is an error.
C22_OneIssuePerFailingRule ==
    qpc = "validated" =>
        /\ OneIssuePerFailingRule
        /\ \A x \in DOMAIN qIssues :
              qIssues[x].severity =
                 IF qIssues[x].issue \in {"noUnderlinedItem", "essayTooShort"}
                 THEN "warning" ELSE "error"

\* an MCQ whose options share a line and none underlined: two issues
C22_Witness ==
    /\ qpc = "validated" /\ qBlock.type = "MCQ"
    /\ qBlock.detectedOptionNodes < 2 /\ ~qBlock.hasUnderline
    /\ Len(qIssues) = 2

\* C15: an MCQ with k >= 2 option nodes, exactly one underlined, shuffled with
\* a target label L: the underlined option stands at option position
\* index(L) mod k under the letter of that position, the other positions hold
\* the other options, each once, and the shuffled question resolves to the
\* letter of that position.
C15_TargetPinning ==
    (/\ qpc \in {"shuffled", "resolved"}
     /\ qBlock.type = "MCQ"
     /\ qArgs.targetLabel # ""
     /\ Cardinality(OptionSlots(qBlock.xmlContent)) >= 2
     /\ Cardinality(UnderlinedOptions(qBlock.xmlContent)) = 1) =>
        LET src == qBlock.xmlContent
            slots == SortedSeq(OptionSlots(src))
            k == Len(slots)
            pos == (targetMap(qArgs.targetLabel) % k) + 1
            u == CHOOSE i \in UnderlinedOptions(src) : TRUE
            Others(nodes, skip, c) ==
                Cardinality({ x \in DOMAIN slots :
                                slots[x] # skip /\ Content(nodes[slots[x]]) = c })
        IN /\ Content(qOut[slots[pos]]) = Content(src[u])
           /\ qOut[slots[pos]].pieces[1].letter = labelsMCQ[pos]
           /\ UnderlinedOptions(qOut) = {slots[pos]}
           /\ \A i \in OptionSlots(src) \ {u} :
                 Others(qOut, slots[pos], Content(src[i])) = Others(src, u, Content(src[i]))
           /\ qpc = "resolved" => qAns = <<labelsMCQ[pos]>>

\* the decision list as stated: key marker; line-initial markers of one case
\* (any of the separators . ) :) at least 2 and more than those of the other
\* case; three markers A, B, C inside one line; free-response section
StatedType(nodes, section) ==
    LET Initial(letters) ==
            Cardinality({ i \in DOMAIN nodes :
                            /\ nodes[i].pieces[1].k = "opt"
                            /\ nodes[i].pieces[1].letter \in letters
                            /\ ~nodes[i].pieces[1].gap })
        upper == Initial(UpperLetters)
        lower == Initial(LowerLetters)
    IN IF KEY_REGEX_EXTRACT(nodes) THEN "SHORT_ANSWER"
       ELSE IF upper >= 2 /\ upper > lower THEN "MCQ"
       ELSE IF lower >= 2 /\ lower > upper THEN "TRUE_FALSE"
       ELSE IF \E i \in DOMAIN nodes : nodes[i].pieces[1].inl THEN "MCQ"
       ELSE IF isEssaySectionLabel(section) THEN "ESSAY"
       ELSE "UNKNOWN"

\* C16: the type of a QuestionBlock is the one the decision list gives: key
\* marker -> SHORT_ANSWER; else >= 2 line-initial upper-case markers, more
\* than the lower-case ones -> MCQ, and symmetrically (same separators)
\* -> TRUE_FALSE; else markers A, B, C inside a single line -> MCQ; else in a
\* free-response section -> ESSAY; else UNKNOWN.
C16_DecisionList ==
    qpc # "idle" => qBlock.type = StatedType(qBlock.xmlContent, qBlock.section)

----------------------------------------------------------------------------
(* Properties of the order and the numbering of the questions (SpecGen) *)

\* position of a type in the render order of processSectionGroup
TypeRank(type) ==
    CASE type = "MCQ" -> 1 [] type = "TRUE_FALSE" -> 2 [] type = "SHORT_ANSWER" -> 3
      [] type = "ESSAY" -> 4 [] OTHER -> 5

TypeAt(body, x) == docData.questions[body[x].entry.q].type

\* the questions emitted so far in the bucket of position x, x included
EmittedInBucket(body, x) ==
    Cardinality({ y \in 1..x : body[y].bucket = body[x].bucket })

TypeOrdered(body) ==
    \A x, y \in DOMAIN body :
        x < y /\ body[x].bucket = body[y].bucket
            => TypeRank(TypeAt(body, x)) <= TypeRank(TypeAt(body, y))

AnswerRowsRun(body, answers) ==
    /\ \A x \in DOMAIN body : body[x].entry.stt = x
    /\ DOMAIN answers = DOMAIN body
    /\ \A x \in DOMAIN body : answers[x] = body[x].entry.ans

\* C17: in each section bucket of a variant the questions come in the type
\* order MCQ, TRUE_FALSE, SHORT_ANSWER, ESSAY, UNKNOWN; the numbers written in
\* their labels are 1, 2, ..., k within the bucket, restarting at 1 in the next
\* bucket; the rows of the answer map run 1..N over all buckets in emission order.
C17_OrderAndNumbering ==
    cur # <<>> =>
        /\ TypeOrdered(cur.body)
        /\ \A x \in DOMAIN cur.body :
              cur.body[x].entry.written = EmittedInBucket(cur.body, x)
        /\ AnswerRowsRun(cur.body, cur.answers)

\* the entries of bucket b, in emission order
BucketBody(body, b) == SelectSeq(body, LAMBDA e : e.bucket = b)

\* every position of a bucket holds a question of that bucket, of the type
\* the position has when nothing is shuffled, and no question twice
PermutesWithinBucketAndType(body) ==
    \A b \in 1..5 :
        LET out == BucketBody(body, b)
            src == BucketQuestions(docData.questions, b)
            ranked == OfType(docData.questions, src, "MCQ")
                        \o OfType(docData.questions, src, "TRUE_FALSE")
                        \o OfType(docData.questions, src, "SHORT_ANSWER")
                        \o OfType(docData.questions, src, "ESSAY")
                        \o OfType(docData.questions, src, "UNKNOWN")
        IN out # <<>> =>
             /\ Len(out) = Len(ranked)
             /\ { out[x].entry.q : x \in DOMAIN out } = Range(src)
             /\ \A x \in DOMAIN out :
                   docData.questions[out[x].entry.q].type
                     = docData.questions[ranked[x]].type

\* C18 as stated: shuffling permutes questions only among positions of the
\* same bucket and type, and the questions of the Part IV bucket come in
\* source order whatever shuffleQuestions is.
C18_PartFourInSourceOrder ==
    cur # <<>> =>
        /\ PermutesWithinBucketAndType(cur.body)
        /\ \A x, y \in DOMAIN cur.body :
              x < y /\ cur.body[x].bucket = 4 /\ cur.body[y].bucket = 4
                  => cur.body[x].entry.q < cur.body[y].entry.q

\* C18: shuffling permutes questions only among positions of the same bucket
\* and type; the questions of one type come in source order when
\* shuffleQuestions is off, in the Part IV bucket, and for the UNKNOWN type
\* (the types themselves are still grouped in render order, also in Part IV).
C18_ShuffleWithinBucketAndType ==
    cur # <<>> =>
        /\ PermutesWithinBucketAndType(cur.body)
        /\ \A x, y \in DOMAIN cur.body :
              /\ x < y
              /\ cur.body[x].bucket = cur.body[y].bucket
              /\ TypeAt(cur.body, x) = TypeAt(cur.body, y)
              /\ \/ ~gArgs.mixOptions.shuffleQuestions
                 \/ cur.body[x].bucket = 4
                 \/ TypeAt(cur.body, x) = "UNKNOWN"
              => cur.body[x].entry.q < cur.body[y].entry.q

\* shuffling on, and two questions of one type and bucket emitted in the
\* reverse of their source order
C18_Witness ==
    /\ gpc = "finish"
    /\ gArgs.mixOptions.shuffleQuestions
    /\ \E x, y \in DOMAIN cur.body :
          /\ x < y
          /\ cur.body[x].bucket = cur.body[y].bucket
          /\ TypeAt(cur.body, x) = TypeAt(cur.body, y)
          /\ cur.body[x].entry.q > cur.body[y].entry.q

----------------------------------------------------------------------------
(* Properties of the segmentation (SpecSegment) *)

IsHeaderParagraph(n) == n.nodeName = "w:p" /\ isSectionHeader(n.textContent)

IsQuestionParagraph(n) ==
    n.nodeName = "w:p" /\ ~isSectionHeader(n.textContent) /\ isQuestionStart(n.textContent)

QuestionSegments(segments) == SelectSeq(segments, LAMBDA s : s.type = "question")

\* the trimmed text of the last section-header paragraph of the body that
\* stands before the child with identity id, "" when there is none
NearestHeaderBefore(id) ==
    LET hs == { j \in DOMAIN sBody : sBody[j].id < id /\ IsHeaderParagraph(sBody[j]) }
    IN IF hs = {} THEN <<>>
       ELSE trim(sBody[CHOOSE j \in hs : \A k \in hs : k <= j].textContent)

\* C19: every QuestionBlock has one section label: the trimmed text of the
\* nearest section-header paragraph before the question in document order,
\* the empty string when no section header precedes it.
C19_SectionIsNearestHeader ==
    spc \in {"loop", "done"} =>
        LET qs == QuestionSegments(seg.segments)
        IN /\ seg.questions = [k \in DOMAIN qs |-> qs[k].questionData]
           /\ \A k \in DOMAIN qs :
                 qs[k].questionData.section = NearestHeaderBefore(qs[k].xmlContent[1].id)

\* a question under the second of two different headers, that header being
\* written with blanks around its text
C19_Witness ==
    /\ spc = "done"
    /\ \E k \in DOMAIN seg.questions : \E i, j \in DOMAIN sBody :
          /\ i < j
          /\ IsHeaderParagraph(sBody[i]) /\ IsHeaderParagraph(sBody[j])
          /\ trim(sBody[i].textContent) # trim(sBody[j].textContent)
          /\ sBody[j].textContent # trim(sBody[j].textContent)
          /\ seg.questions[k].section = trim(sBody[j].textContent)

RECURSIVE Flatten(_)
Flatten(segments) ==
    IF segments = <<>> THEN <<>>
    ELSE Head(segments).xmlContent \o Flatten(Tail(segments))

\* C20: segmentation partitions the body: apart from the removed w:sectPr
\* every child of the body is in exactly one segment, segments and nodes keep
\* document order, a segment starts at each section-header paragraph (Static)
\* and each question-start paragraph (Question) and, the first node of the
\* body apart, nowhere else; there are as many QuestionBlocks as Question
\* segments.
C20_SegmentsPartitionBody ==
    spc = "done" =>
        LET segments == seg.segments
            kept == SelectSeq(sBody, LAMBDA n : n # finalSectPr)
        IN /\ si = Len(childNodes) + 1
           /\ finalSectPr = <<>> => \A i \in DOMAIN sBody : sBody[i].nodeName # "w:sectPr"
           /\ finalSectPr # <<>> =>
                 /\ finalSectPr \in Range(sBody) /\ finalSectPr.nodeName = "w:sectPr"
                 /\ \A i \in DOMAIN sBody :
                       sBody[i].nodeName = "w:sectPr" => sBody[i].id <= finalSectPr.id
           /\ Flatten(segments) = kept
           /\ \A k \in DOMAIN segments :
                 LET nodes == segments[k].xmlContent
                 IN /\ nodes # <<>>
                    /\ k > 1 => IsHeaderParagraph(nodes[1]) \/ IsQuestionParagraph(nodes[1])
                    /\ \A x \in 2..Len(nodes) :
                          ~IsHeaderParagraph(nodes[x]) /\ ~IsQuestionParagraph(nodes[x])
                    /\ segments[k].type = IF IsQuestionParagraph(nodes[1])
                                          THEN "question" ELSE "static"
           /\ Len(seg.questions) = Len(QuestionSegments(segments))
           /\ (\A i \in DOMAIN kept : ~IsQuestionParagraph(kept[i])) => seg.questions = <<>>

\* a body that opens with a paragraph that starts nothing, holds a question
\* of two paragraphs and ends with the w:sectPr that was removed
C20_Witness ==
    /\ spc = "done"
    /\ finalSectPr # <<>>
    /\ Len(seg.segments) >= 2
    /\ seg.segments[1].type = "static"
    /\ ~IsHeaderParagraph(seg.segments[1].xmlContent[1])
    /\ \E k \in DOMAIN seg.segments :
          seg.segments[k].type = "question" /\ Len(seg.segments[k].xmlContent) >= 2

----------------------------------------------------------------------------
(* Properties of the App component (SpecApp) *)

\* the package whose processing failed in this step
RejectedFiles == { pending[k].file : k \in { j \in DOMAIN pending : FileRejectedAt(j) } }

\* C12: processDocxFile fails with an error naming word/document.xml when the
\* package has no such part, and fails when w:body is missing; after the
\* failure no ProcessedDoc is stored, no issues are set, and the front-end is
\* at the upload step showing the error message.
C12_FailureRetainsNothing ==
    [][ FileRejected =>
          /\ \A f \in RejectedFiles :
                /\ ~f.hasDocument => app'.errorMsg = ErrNoDocument
                /\ f.hasDocument => ~f.hasBody /\ app'.errorMsg = ErrNoBody
          /\ app'.step = "upload"
          /\ app'.docData = <<>>
          /\ app'.issues = <<>> ]_vars

----------------------------------------------------------------------------
(* Specification SpecStrip: appendQuestions on one question without option *)
(* lines, at the level of the runs of its paragraphs: the answer is        *)
(* resolved, then the answer-revealing elements and the key tags are       *)
(* removed from each node, then the nodes are appended.                    *)
(* A paragraph is the sequence of its runs; a run is its w:t text and the  *)
(* set of the element names found in its w:rPr.                            *)

\* removeTags is called with these names
AnswerTags == {"w:u", "w:color", "w:highlight", "w:shd"}

paragraphText(p) == joinTexts([r \in DOMAIN p |-> [text |-> p[r].text]])

\* currentSegment.textContent: the paragraph texts joined by line breaks
RECURSIVE segmentText(_)
segmentText(paragraphs) ==
    IF paragraphs = <<>> THEN <<>>
    ELSE IF Len(paragraphs) = 1 THEN paragraphText(paragraphs[1])
    ELSE paragraphText(paragraphs[1]) \o <<"\n">> \o segmentText(Tail(paragraphs))

\* /<Key\s*=\s*([^>]*)>/i: the positions where it matches
KeyMatches(t) == { i \in DOMAIN t : t[i] = "<" /\ KEY_TAG_REMOVE_PATTERN(t, i) # 0 }

RECURSIVE trimEnd(_)
trimEnd(t) == IF t # <<>> /\ IsSpace(t[Len(t)]) THEN trimEnd(SubSeq(t, 1, Len(t) - 1)) ELSE t

\* match[1].trim() of the first match
keyAnswer(t) ==
    LET i == CHOOSE x \in KeyMatches(t) : \A y \in KeyMatches(t) : x <= y
        eq == SkipSpaces(t, i + 4)
        e == KEY_TAG_REMOVE_PATTERN(t, i)
    IN trimEnd(SubSeq(t, SkipSpaces(t, eq + 1), e - 1))

\* getAnswerFromNodes for a question without option lines: SHORT_ANSWER when
\* detectType found a key tag in the text, else ESSAY or UNKNOWN
answerOfText(originalText) ==
    IF KeyMatches(originalText) # {} THEN keyAnswer(originalText) ELSE <<>>

\* lines 1131-1143 on one node
stripNodeRuns(p) ==
    LET cleaned == cleanKeyTagFromParagraph([r \in DOMAIN p |-> p[r].text])
    IN [r \in DOMAIN p |-> [text |-> cleaned[r], rPr |-> p[r].rPr \ AnswerTags]]

\* texts of a run: plain text, a whole tag, the opening and the closing part
\* of a tag cut in two
RunTexts ==
    { <<"x">>,
      <<"<", "K", "e", "y", "=", "5", ">">>,
      <<"x", " ", "<", "K", "e", "y", "=">>,
      <<"5", ">">> }

RunProperties == { {}, {"w:u"}, {"w:b", "w:u", "w:color", "w:highlight", "w:shd"} }

\* a first paragraph of up to MaxFragments runs, the first one formatted;
\* then nothing, or a second paragraph of one run
StripQuestions ==
    UNION { { <<[r \in 1..n |-> [text |-> ts[r], rPr |-> IF r = 1 THEN props ELSE {}]]>> \o more :
                ts \in [1..n -> RunTexts], props \in RunProperties,
                more \in {<<>>} \cup { <<<<[text |-> t, rPr |-> {"w:u"}]>>>> : t \in RunTexts } } :
            n \in 1..MaxFragments }

StripReady == tpc = "ready" /\ tIn \in StripQuestions /\ tAns = <<>> /\ tOut = <<>>

\* lines 1124-1129
ResolveAnswer ==
    /\ tpc = "ready"
    /\ tAns' = answerOfText(segmentText(tIn))
    /\ tpc' = "resolved"
    /\ UNCHANGED <<tIn, tOut>>
    /\ UNCHANGED <<keyVars, questionVars, genVars, cleanVars, segmentVars, appVars, batchVars>>

\* lines 1131-1145
StripAndAppend ==
    /\ tpc = "resolved"
    /\ tOut' = [n \in DOMAIN tIn |-> stripNodeRuns(tIn[n])]
    /\ tpc' = "appended"
    /\ UNCHANGED <<tIn, tAns>>
    /\ UNCHANGED <<keyVars, questionVars, genVars, cleanVars, segmentVars, appVars, batchVars>>

StripInit ==
    /\ StripReady /\ KeysIdle /\ QuestionIdle /\ GenIdle /\ CleanIdle /\ SegmentIdle
    /\ AppIdle /\ BatchIdle
StripNext == ResolveAnswer \/ StripAndAppend
SpecStrip == StripInit /\ [][StripNext]_vars

----------------------------------------------------------------------------
(* Properties of the stripping (SpecStrip) *)

\* C21: the nodes of a question appended to a variant body hold no underline,
\* font colour, highlight or shading element and, when processDocxFile
\* detected a key tag in the question, no key tag text; the answer recorded
\* is the one resolved from the content before the stripping.
C21_AppendedNodesRevealNothing ==
    tpc = "appended" =>
        /\ \A n \in DOMAIN tOut : \A r \in DOMAIN tOut[n] :
              tOut[n][r].rPr \cap AnswerTags = {}
        /\ KeyMatches(segmentText(tIn)) # {} => KeyMatches(segmentText(tOut)) = {}
        /\ tAns = answerOfText(segmentText(tIn))

----------------------------------------------------------------------------
(* Properties of the relabelling (SpecQuestion) *)

\* C23: after shuffleQuestionOptions has shuffled (at least 2 option nodes),
\* the option node at the x-th option position carries the x-th label (A, B,
\* ... for an MCQ, a, b, ... for a TRUE_FALSE question); the marker of an
\* MCQ option ends with "." whatever the source had, also when letter and
\* separator are in different w:t; the marker of a TRUE_FALSE option ends
\* with the separator detected in the source question.
C23_RelabelledByPosition ==
    (qpc = "shuffled" /\ Cardinality(OptionSlots(qBlock.xmlContent)) >= 2) =>
        LET slots == SortedSeq(OptionSlots(qBlock.xmlContent))
        IN \A x \in DOMAIN slots :
              LET p == qOut[slots[x]].pieces[1]
              IN /\ p.letter = (IF qBlock.type = "MCQ" THEN labelsMCQ[x] ELSE labelsTF[x])
                 /\ p.k = "opt" =>
                       p.sep = (IF qBlock.type = "MCQ" THEN "."
                                ELSE detectedSeparatorOf(qBlock.xmlContent))

----------------------------------------------------------------------------
(* Properties of the layout reformat (SpecQuestion) *)

OptionPieces(node) == { x \in DOMAIN node.pieces : node.pieces[x].k \in {"opt", "loose"} }

\* the emitted nodes that hold options, in order
RECURSIVE OptionNodesOf(_)
OptionNodesOf(nodes) ==
    IF nodes = <<>> THEN <<>>
    ELSE (IF OptionPieces(nodes[1]) # {} THEN <<nodes[1]>> ELSE <<>>)
           \o OptionNodesOf(Tail(nodes))

\* the layout the option weights call for: how many options each emitted
\* option paragraph holds
LayoutFor(maxWeight) ==
    IF maxWeight <= LowThreshold THEN <<4>>
    ELSE IF maxWeight <= MidThreshold THEN <<2, 2>>
    ELSE <<1, 1, 1, 1>>

\* C24: an MCQ with exactly 4 option paragraphs, appended with the option
\* shuffle on: its options are emitted in one paragraph when the largest
\* option weight is at most 10, in two paragraphs of two when it is at most
\* 30, else in four paragraphs; the options stand in label order and no
\* paragraph holds an option together with a non-option node.
C24_LayoutByOptionWeight ==
    (/\ qpc = "appended" /\ qBlock.type = "MCQ" /\ qArgs.shuffleOptions
     /\ Cardinality(OptionSlots(qBlock.xmlContent)) = 4) =>
        LET src == qBlock.xmlContent
            slots == SortedSeq(OptionSlots(src))
            maxWeight == MaxOf([x \in 1..4 |-> textLen(src[slots[x]])])
            opts == OptionNodesOf(qOut)
        IN /\ [x \in DOMAIN opts |-> Len(opts[x].pieces)] = LayoutFor(maxWeight)
           /\ LettersOf(opts) = <<"A", "B", "C", "D">>
           /\ \A i \in DOMAIN qOut :
                 OptionPieces(qOut[i]) \in {{}, DOMAIN qOut[i].pieces}

----------------------------------------------------------------------------
(* Specification SpecBatches: generateVariants called again and again on   *)
(* the same ProcessedDoc, as far as the package docData.zip is concerned.  *)

ContentTypesFiles ==
    { NoFile, XmlFile(<<>>, FALSE), XmlFile(<<"/word/document.xml">>, TRUE),
      XmlFile(<<"/word/document.xml", FooterPart>>, TRUE) }

RelsFiles ==
    { NoFile, XmlFile(<<>>, FALSE), XmlFile(<<>>, TRUE),
      XmlFile(<<[Id |-> "rId7", Target |-> "footer1.xml"]>>, TRUE),
      XmlFile(<<[Id |-> "", Target |-> "/word/footer1.xml"]>>, TRUE),
      XmlFile(<<[Id |-> "rId3", Target |-> "footer2.xml"]>>, TRUE) }

\* the source document has a footer of its own ("w" its text) or none
SourcePackages ==
    { [footer |-> footer, contentTypes |-> ct, rels |-> rels, document |-> <<>>] :
        footer \in {<<>>, <<"w">>}, ct \in ContentTypesFiles, rels \in RelsFiles }

\* the packages the loop seals, in order: each iteration overwrites
\* word/footer1.xml (header generation on) and word/document.xml in the
\* shared package and serializes it
variantPackages(z, footerRid, startCode, count, enabled) ==
    [i \in 1..count |->
        LET variantCode == variantCodeOf(startCode, i)
        IN [z EXCEPT !.footer = IF enabled THEN variantCode ELSE @,
                     !.document = [code |-> variantCode, header |-> enabled,
                                   footerReference |->
                                       IF enabled THEN footerRid ELSE ""]]]

BatchReady ==
    /\ bpc = "ready"
    /\ bSource \in SourcePackages
    /\ bZip = bSource
    /\ bArgs = <<>> /\ bRids = <<>> /\ bOut = <<>>

\* one call of generateVariants
CallGenerateVariants ==
    /\ bpc = "ready"
    /\ Len(bArgs) < MaxBatches
    /\ \E startCode \in StartCodes, count \in 1..MaxCount, enabled \in BOOLEAN :
         \E setup \in {IF enabled THEN setupFooterFiles(bZip)
                                  ELSE [zip |-> bZip, footerRid |-> ""]} :
           \E out \in {variantPackages(setup.zip, setup.footerRid, startCode, count, enabled)} :
              /\ bOut' = out
              /\ bZip' = out[count]
              /\ bRids' = IF enabled THEN Append(bRids, setup.footerRid) ELSE bRids
              /\ bArgs' = Append(bArgs, [startCode |-> startCode, count |-> count,
                                         enabled |-> enabled])
    /\ UNCHANGED <<bpc, bSource>>
    /\ UNCHANGED <<keyVars, questionVars, genVars, cleanVars, segmentVars, appVars, stripVars>>

BatchesInit ==
    /\ BatchReady /\ KeysIdle /\ QuestionIdle /\ GenIdle /\ CleanIdle /\ SegmentIdle
    /\ AppIdle /\ StripIdle
BatchesNext == CallGenerateVariants
SpecBatches == BatchesInit /\ [][BatchesNext]_vars

----------------------------------------------------------------------------
(* Properties of repeated batches (SpecBatches) *)

FooterOverrides(z) ==
    Cardinality({ x \in DOMAIN z.contentTypes.entries : z.contentTypes.entries[x] = FooterPart })

\* C25: however many times setupFooterFiles has been called on the package,
\* its content types and its relationships are those left by the first call,
\* which created at most one override and at most one relationship, and
\* every call returned the same relationship id.
C25_FooterSetupIdempotent ==
    bRids # <<>> =>
        LET first == setupFooterFiles(bSource)
        IN /\ bZip.contentTypes = first.zip.contentTypes
           /\ bZip.rels = first.zip.rels
           /\ FooterOverrides(bZip) <= FooterOverrides(bSource) + 1
           /\ Cardinality(FooterRelationships(bZip.rels))
                 <= Cardinality(FooterRelationships(bSource.rels)) + 1
           /\ FooterOverrides(bZip) <= 1
           /\ \A x \in DOMAIN bRids : bRids[x] = bRids[1]

\* two calls on a package that had neither the override nor the relationship
C25_Witness ==
    /\ Len(bRids) >= 2
    /\ FooterOverrides(bSource) = 0 /\ FooterOverrides(bZip) = 1
    /\ FooterRelationships(bSource.rels) = {}
    /\ Cardinality(FooterRelationships(bZip.rels)) = 1
    /\ bRids[2] = "rIdFooterGen1"

\* C29: the variant packages of a call with header generation off differ
\* from the source package in word/document.xml only, whatever calls were
\* made on the ProcessedDoc before.
C29_EarlierBatchLeavesNoTrace ==
    (bArgs # <<>> /\ ~bArgs[Len(bArgs)].enabled) =>
        \A x \in DOMAIN bOut :
            /\ bOut[x].footer = bSource.footer
            /\ bOut[x].contentTypes = bSource.contentTypes
            /\ bOut[x].rels = bSource.rels

----------------------------------------------------------------------------
(* Properties of the stored next code (SpecApp) *)

\* the step is the continuation of handleShuffle for the k-th promise
ShuffleSettles(k) ==
    /\ k \in DOMAIN pending
    /\ pending[k].kind = "shuffle"
    /\ pending' = RemoveAt(pending, k)

\* C26: the stored next code changes only when a generateVariants call has
\* resolved, to the start code of that call plus its count; a rejected call
\* leaves the stored value and startCode as they were; a call that resolves
\* had a start code beyond the codes of the call that resolved before it
\* (the stored value is the first code after those).
C26_NextCodeAfterSuccessOnly ==
    [][ /\ nextCode' # nextCode =>
              \E k \in DOMAIN pending :
                  /\ ShuffleSettles(k) /\ ShuffleDone
                  /\ nextCode' = pending[k].startCode + pending[k].variantCount
        /\ ShuffleFailed => (nextCode' = nextCode /\ app'.startCode = app.startCode)
        /\ ShuffleDone =>
              \A k \in DOMAIN pending :
                  ShuffleSettles(k) => pending[k].startCode >= nextCode ]_vars

----------------------------------------------------------------------------
(* Properties of the advisory text (SpecApp) *)

\* C30: whenever aiAnalysis holds a reviewer's text, docData holds a
\* document and the text is the one requested for the questions of that
\* document.
C30_AnalysisOfCurrentDocument ==
    (Len(app.aiAnalysis) = 2) =>
        /\ app.docData # <<>>
        /\ app.aiAnalysis = checkContentWithGemini(app.docData.questions)

----------------------------------------------------------------------------
(* Properties of short-answer questions (SpecQuestion) *)

Blanks(t) == \A x \in DOMAIN t : t[x] \in {" ", "\n"}

\* a is t without the blanks at its two ends
IsTrimOf(a, t) ==
    /\ a = <<>> \/ (a[1] \notin {" ", "\n"} /\ a[Len(a)] \notin {" ", "\n"})
    /\ \E i \in 0..Len(t), j \in 0..Len(t) :
          /\ i + Len(a) + j = Len(t)
          /\ Blanks(SubSeq(t, 1, i))
          /\ SubSeq(t, i + 1, i + Len(a)) = a
          /\ Blanks(SubSeq(t, Len(t) - j + 1, Len(t)))

\* C28: a QuestionBlock of type SHORT_ANSWER built by processDocxFile has a
\* key tag and is valid; getValidationIssues reports nothing for it, and its
\* answer, from the source nodes or when appended to a variant, is the text
\* of the key tag without the blanks around it.
C28_ShortAnswerHasKey ==
    qBlock.type = "SHORT_ANSWER" =>
        /\ qBlock.hasKeyTag /\ qBlock.isValid
        /\ qpc = "validated" => qIssues = <<>>
        /\ qpc \in {"resolvedSource", "appended"} =>
              IsTrimOf(qAns, KeyChars(KeyValue(qBlock.xmlContent)))

\* <Key= 5 > resolved to 5
C28_Witness ==
    /\ qpc = "resolvedSource" /\ qBlock.type = "SHORT_ANSWER"
    /\ KeyValue(qBlock.xmlContent) = " 5 "
    /\ qAns = <<"5">>

----------------------------------------------------------------------------
(* Properties of a batch without shuffling (SpecGen) *)

RECURSIVE ConcatAll(_)
ConcatAll(ss) == IF ss = <<>> THEN <<>> ELSE ss[1] \o ConcatAll(Tail(ss))

\* the questions in render order: bucket after bucket, inside a bucket type
\* after type, inside a type in source order
RenderOrder(questions) ==
    ConcatAll([x \in 1..25 |->
        LET b == ((x - 1) \div 5) + 1
            type == <<"MCQ", "TRUE_FALSE", "SHORT_ANSWER", "ESSAY", "UNKNOWN">>[((x - 1) % 5) + 1]
        IN OfType(questions, BucketQuestions(questions, b), type)])

\* C27: in a call with shuffleQuestions and shuffleOptions off every sealed
\* variant renders the questions in render order, each with the answer
\* resolved from its source nodes, with as many nodes and the same option
\* letters as in the source and without a target key; the answer maps of
\* all variants of the batch are equal.
C27_NoShuffleIsDeterministic ==
    (gpc # "idle" /\ ~gArgs.mixOptions.shuffleQuestions /\ ~gArgs.mixOptions.shuffleOptions) =>
        /\ \A v \in DOMAIN masterZip :
              LET body == masterZip[v].document.body
                  order == RenderOrder(docData.questions)
              IN /\ [x \in DOMAIN body |-> body[x].entry.q] = order
                 /\ DOMAIN allVariantAnswers[v].answers = DOMAIN order
                 /\ \A x \in DOMAIN body :
                       LET e == body[x].entry
                           src == docData.questions[e.q]
                       IN /\ e.ans = getAnswerFromNodes(src.xmlContent, src.type, src.xmlContent)
                          /\ allVariantAnswers[v].answers[x] = e.ans
                          /\ e.nodes = Len(src.xmlContent)
                          /\ e.labels = LettersOf(src.xmlContent)
                          /\ e.target = ""
        /\ \A v, w \in DOMAIN allVariantAnswers :
              allVariantAnswers[v].answers = allVariantAnswers[w].answers

\* two variants of a true/false question and an MCQ, both shuffles off
C27_Witness ==
    /\ gpc = "done" /\ Len(masterZip) = 2
    /\ ~gArgs.mixOptions.shuffleQuestions /\ ~gArgs.mixOptions.shuffleOptions
    /\ docData.questions[1].type = "TRUE_FALSE" /\ docData.questions[2].type = "MCQ"
    /\ allVariantAnswers[1].answers[1] = <<"B">>
    /\ allVariantAnswers[2].answers[2] = <<FalseMark, TrueMark>>

====
